---- MODULE Spec2Model ----
(***************************************************************************)
(* A model of sql_parser_lib: the tokenizer (src/token.rs), the token      *)
(* cursor (src/parser/mod.rs), the expression parser (src/parser/expr.rs), *)
(* the clause library (src/parser/common.rs) and the SELECT / DELETE /     *)
(* INSERT statement parsers.                                               *)
(*                                                                         *)
(* Text is a sequence of one-character strings.  The tokenizer is a pure    *)
(* function of the text.  The parsers are recursive-descent functions: the  *)
(* model keeps their call stack explicitly (one frame per active call, with *)
(* the place it resumes at and its locals) and an action Step runs the      *)
(* function on top of the stack up to its next call or return.              *)
(***************************************************************************)
EXTENDS Integers, Sequences, FiniteSets, TLC

VARIABLES
    sql,      \* the SQL text handed to Parser::new_from_sql
    entry,    \* the parse function the caller invokes on the parser
    tokens,   \* Parser.tokens
    current,  \* Parser.current
    call_stack, \* the active calls of the parse functions, innermost last
    ret,      \* the value the most recent call returned
    phase,    \* "new", "ready", "abort", "run" or "done"
    result    \* what the entry function returned to the caller

vars == <<sql, entry, tokens, current, call_stack, ret, phase, result>>

----------------------------------------------------------------------------
(* Characters and strings                                                   *)

LowerChars == <<"a","b","c","d","e","f","g","h","i","j","k","l","m",
                "n","o","p","q","r","s","t","u","v","w","x","y","z">>
UpperChars == <<"A","B","C","D","E","F","G","H","I","J","K","L","M",
                "N","O","P","Q","R","S","T","U","V","W","X","Y","Z">>
DigitChars == <<"0","1","2","3","4","5","6","7","8","9">>

\* the grave accent U+0060 that quotes identifiers; a TLA+ string cannot hold
\* that character, so this atom stands for it
BACKTICK == "bt"

Range(s) == {s[i] : i \in 1..Len(s)}

Min(a, b) == IF a <= b THEN a ELSE b

IsAsciiDigit(c) == c \in Range(DigitChars)
IsLower(c) == c \in Range(LowerChars)
\* char::is_alphanumeric restricted to the ASCII letters and digits of the model
IsAlphanumeric(c) == IsLower(c) \/ c \in Range(UpperChars) \/ IsAsciiDigit(c)
\* char::is_whitespace / regex \s restricted to space, newline and tab
IsWhitespace(c) == c \in {" ", "\n", "\t"}

UpperChar(c) ==
    IF IsLower(c)
    THEN UpperChars[CHOOSE i \in 1..26 : LowerChars[i] = c]
    ELSE c

ToUppercase(s) == [i \in 1..Len(s) |-> UpperChar(s[i])]

AllAsciiDigits(s) == \A i \in 1..Len(s) : IsAsciiDigit(s[i])

StartsWithAt(s, i, pat) ==
    /\ i + Len(pat) - 1 <= Len(s)
    /\ \A j \in 1..Len(pat) : s[i + j - 1] = pat[j]

EndsWith(s, pat) == Len(pat) <= Len(s) /\ StartsWithAt(s, Len(s) - Len(pat) + 1, pat)

\* s[from..to] with 1-based inclusive indices; empty when from > to
Slice(s, from, to) == IF from > to THEN <<>> ELSE SubSeq(s, from, to)

\* A loop over the positions lo..hi of s: Body(s, i, st) is the loop body at
\* position i in state st.  The range is halved so that the evaluation depth
\* stays logarithmic; the test on left only fixes the evaluation order.
RECURSIVE PosFold(_, _, _, _, _)
PosFold(Body(_, _, _), s, lo, hi, st) ==
    IF lo > hi THEN st
    ELSE IF lo = hi THEN Body(s, lo, st)
    ELSE LET mid == (lo + hi) \div 2
             left == PosFold(Body, s, lo, mid, st)
         IN IF left = left THEN PosFold(Body, s, mid + 1, hi, left) ELSE st

\* let x = value; then(x): value is computed once, then bound
Bind(value, then(_)) == CHOOSE r \in {then(x) : x \in {value}} : TRUE

\* str::replace: non-overlapping matches of pat, left to right
ReplaceStep(s, i, st) ==
    IF i < st.next THEN st
    ELSE IF StartsWithAt(s, i, st.pat)
         THEN [st EXCEPT !.out = @ \o st.rep, !.next = i + Len(st.pat)]
         ELSE [st EXCEPT !.out = Append(@, s[i]), !.next = i + 1]

Replace(s, pat, rep) ==
    PosFold(ReplaceStep, s, 1, Len(s),
            [out |-> <<>>, next |-> 1, pat |-> pat, rep |-> rep]).out

\* str::find for a single character: the 1-based index of the first c, 0 if none
FindChar(s, c) ==
    IF \E i \in 1..Len(s) : s[i] = c
    THEN CHOOSE i \in 1..Len(s) : s[i] = c /\ \A j \in 1..(i - 1) : s[j] # c
    ELSE 0

\* str::trim
RECURSIVE TrimStart(_)
TrimStart(s) ==
    IF s # <<>> /\ IsWhitespace(Head(s)) THEN TrimStart(Tail(s)) ELSE s

RECURSIVE TrimEnd(_)
TrimEnd(s) ==
    IF s # <<>> /\ IsWhitespace(s[Len(s)])
    THEN TrimEnd(Slice(s, 1, Len(s) - 1))
    ELSE s

Trim(s) == TrimEnd(TrimStart(s))

\* str::split_whitespace: the maximal runs of non-whitespace characters
SplitStep(s, i, st) ==
    IF IsWhitespace(s[i])
    THEN IF st.word = <<>> THEN st
         ELSE [words |-> Append(st.words, st.word), word |-> <<>>]
    ELSE [st EXCEPT !.word = Append(@, s[i])]

SplitWhitespace(s) ==
    LET st == PosFold(SplitStep, s, 1, Len(s), [words |-> <<>>, word |-> <<>>])
    IN IF st.word = <<>> THEN st.words ELSE Append(st.words, st.word)

----------------------------------------------------------------------------
(* Vocabulary tables (kerwords.rs loads them from keywords.json/types.json) *)

\* the words the parsers pass to match_keyword and is_keyword, by spelling
K ==
    "SELECT" :> <<"S","E","L","E","C","T">>
    @@ "FROM" :> <<"F","R","O","M">>
    @@ "WHERE" :> <<"W","H","E","R","E">>
    @@ "GROUP" :> <<"G","R","O","U","P">>
    @@ "BY" :> <<"B","Y">>
    @@ "HAVING" :> <<"H","A","V","I","N","G">>
    @@ "ORDER" :> <<"O","R","D","E","R">>
    @@ "LIMIT" :> <<"L","I","M","I","T">>
    @@ "OFFSET" :> <<"O","F","F","S","E","T">>
    @@ "AS" :> <<"A","S">>
    @@ "ASC" :> <<"A","S","C">>
    @@ "DESC" :> <<"D","E","S","C">>
    @@ "DELETE" :> <<"D","E","L","E","T","E">>
    @@ "INSERT" :> <<"I","N","S","E","R","T">>
    @@ "INTO" :> <<"I","N","T","O">>
    @@ "VALUES" :> <<"V","A","L","U","E","S">>
    @@ "SET" :> <<"S","E","T">>
    @@ "DEFAULT" :> <<"D","E","F","A","U","L","T">>
    @@ "ON" :> <<"O","N">>
    @@ "DUPLICATE" :> <<"D","U","P","L","I","C","A","T","E">>
    @@ "KEY" :> <<"K","E","Y">>
    @@ "UPDATE" :> <<"U","P","D","A","T","E">>
    @@ "OR" :> <<"O","R">>
    @@ "AND" :> <<"A","N","D">>
    @@ "NOT" :> <<"N","O","T">>
    @@ "NULL" :> <<"N","U","L","L">>
    @@ "*" :> <<"*">>

\* the reserved words of the grammar the parsers match
KEYWORDS ==
    {K[w] : w \in DOMAIN K \ {"*"}}
    \cup {<<"D","I","S","T","I","N","C","T">>, <<"A","L","L">>}

\* recognized type names
TYPES == {<<"I","N","T">>, <<"C","H","A","R">>, <<"V","A","R","C","H","A","R">>}

----------------------------------------------------------------------------
(* Tokens (token.rs)                                                        *)

None == [some |-> FALSE]
Some(x) == [some |-> TRUE, v |-> x]

Keyword(s) == [type |-> "Keyword", text |-> s]
Identifier(s) == [type |-> "Identifier", text |-> s]
StringLiteral(s) == [type |-> "StringLiteral", text |-> s]
NumericLiteral(s) == [type |-> "NumericLiteral", text |-> s]
Operator(s) == [type |-> "Operator", text |-> s]
Punctuator(c) == [type |-> "Punctuator", ch |-> c]
DataType(n, l) == [type |-> "DataType", name |-> n, length |-> l]
QualifiedIdentifier(q, n) == [type |-> "QualifiedIdentifier", qualifier |-> q, name |-> n]

OPERATOR_SET ==
    {<<"=">>, <<"<">>, <<">">>, <<"<", "=">>, <<">", "=">>, <<"!", "=">>,
     <<"+">>, <<"-">>, <<"*">>, <<"/">>, <<"%">>}

PUNCTUATORS == {",", ";", "(", ")", "."}

SPACE_MARK == <<"_", "_", "_">>
COMMA_MARK == <<"-", "-", "-">>

\* RE_BLOCK = (?s)/\*.*?\*/ replaced by "": the leftmost "/*" that has a later
\* "*/" is removed up to the nearest such "*/"
BlockStep(s, i, st) ==
    IF i < st.next THEN st
    ELSE IF StartsWithAt(s, i, <<"/", "*">>)
            /\ \E j \in (i + 2)..Len(s) : StartsWithAt(s, j, <<"*", "/">>)
         THEN LET j == CHOOSE j \in (i + 2)..Len(s) :
                          /\ StartsWithAt(s, j, <<"*", "/">>)
                          /\ \A k \in (i + 2)..(j - 1) : ~StartsWithAt(s, k, <<"*", "/">>)
              IN [st EXCEPT !.next = j + 2]
         ELSE [out |-> Append(st.out, s[i]), next |-> i + 1]

\* RE_LINE = (?m)--.*$ replaced by "": from "--" up to the end of its line
LineEnd(s, i) ==
    IF \E k \in i..Len(s) : s[k] = "\n"
    THEN CHOOSE k \in i..Len(s) : s[k] = "\n" /\ \A j \in i..(k - 1) : s[j] # "\n"
    ELSE Len(s) + 1

LineStep(s, i, st) ==
    IF i < st.next THEN st
    ELSE IF StartsWithAt(s, i, <<"-", "-">>)
         THEN [st EXCEPT !.next = LineEnd(s, i)]
         ELSE [out |-> Append(st.out, s[i]), next |-> i + 1]

\* RE_SPACES = \s+ replaced by " "
CollapseStep(s, i, out) ==
    IF IsWhitespace(s[i])
    THEN IF i > 1 /\ IsWhitespace(s[i - 1]) THEN out ELSE Append(out, " ")
    ELSE Append(out, s[i])

\* the single-quote masking loop of preprocess_input
MaskStep(s, i, st) ==
    LET ch == s[i] IN
    IF ch = "'" THEN [out |-> Append(st.out, ch), in_quotes |-> ~st.in_quotes]
    ELSE IF ch = " " /\ st.in_quotes THEN [st EXCEPT !.out = @ \o SPACE_MARK]
    ELSE IF ch = "," /\ st.in_quotes THEN [st EXCEPT !.out = @ \o COMMA_MARK]
    ELSE [st EXCEPT !.out = Append(@, ch)]

preprocess_input(input) ==
    LET without_block == PosFold(BlockStep, input, 1, Len(input),
                                 [out |-> <<>>, next |-> 1]).out
        without_line == PosFold(LineStep, without_block, 1, Len(without_block),
                                [out |-> <<>>, next |-> 1]).out
        replaced1 == Replace(without_line, <<"\n">>, <<" ">>)
        replaced2 == Trim(PosFold(CollapseStep, replaced1, 1, Len(replaced1), <<>>))
        replaced3 == Replace(replaced2, <<"'", "'", "'">>, <<"'">>)
    IN PosFold(MaskStep, replaced3, 1, Len(replaced3),
               [out |-> <<>>, in_quotes |-> FALSE]).out

\* A Rust slice &s[lo..hi] (0-based, half open) aborts unless lo <= hi <= len
SliceOK(s, lo, hi) == 0 <= lo /\ lo <= hi /\ hi <= Len(s)
RustSlice(s, lo, hi) == Slice(s, lo + 1, hi)

Tokens(ts) == [panic |-> FALSE, toks |-> ts]
Abort == [panic |-> TRUE, toks |-> <<>>]

\* try_parse_data_type without its test that the word ends with ")"
try_parse_data_type_any_end(word) ==
    IF ToUppercase(word) \in TYPES
    THEN [panic |-> FALSE, tok |-> Some(DataType(word, None))]
    ELSE LET start == FindChar(word, "(") - 1
             name == RustSlice(word, 0, start)
             inside == RustSlice(word, start + 1, Len(word) - 1)
         IN IF start < 0 \/ ToUppercase(name) \notin TYPES
            THEN [panic |-> FALSE, tok |-> None]
            ELSE IF ~SliceOK(word, start + 1, Len(word) - 1)
                 THEN [panic |-> TRUE, tok |-> None]
                 ELSE [panic |-> FALSE,
                       tok |-> Some(DataType(name,
                                 IF inside = <<>> THEN None ELSE Some(inside)))]

\* Some(token) / None, or an abort when a slice is out of bounds
try_parse_data_type(word) ==
    IF ToUppercase(word) \in TYPES
    THEN [panic |-> FALSE, tok |-> Some(DataType(word, None))]
    ELSE LET start == FindChar(word, "(") - 1
         IN IF start >= 0 /\ EndsWith(word, <<")">>)
            THEN IF ~SliceOK(word, 0, start) THEN [panic |-> TRUE, tok |-> None]
                 ELSE LET name == RustSlice(word, 0, start)
                      IN IF ToUppercase(name) \notin TYPES
                         THEN [panic |-> FALSE, tok |-> None]
                         ELSE IF ~SliceOK(word, start + 1, Len(word) - 1)
                              THEN [panic |-> TRUE, tok |-> None]
                              ELSE LET inside == RustSlice(word, start + 1, Len(word) - 1)
                                   IN [panic |-> FALSE,
                                       tok |-> Some(DataType(name,
                                                  IF inside = <<>> THEN None ELSE Some(inside)))]
            ELSE [panic |-> FALSE, tok |-> None]

\* the accumulator flushed: nothing when it is empty, else its token by the
\* keyword / number / identifier classification
FlushAcc(acc) ==
    IF acc = <<>> THEN <<>>
    ELSE IF ToUppercase(acc) \in KEYWORDS THEN <<Keyword(acc)>>
    ELSE IF AllAsciiDigits(acc) THEN <<NumericLiteral(acc)>>
    ELSE <<Identifier(acc)>>

\* the end of the run of alphanumeric/underscore characters starting at i
NameEnd(s, i) ==
    LET stops == {k \in i..Len(s) : ~(IsAlphanumeric(s[k]) \/ s[k] = "_")}
    IN IF stops = {} THEN Len(s) + 1
       ELSE CHOOSE k \in stops : \A j \in stops : k <= j

\* the '.' branch pushing the qualifier, the dot and the name as three tokens
DotTokensSeparate(qualifier, name) ==
    <<Identifier(qualifier), Punctuator("."), Identifier(name)>>

\* the tokens the '.' branch pushes for a qualifier and the name after the dot
DotTokens(qualifier, name) ==
    IF qualifier = <<>> \/ AllAsciiDigits(qualifier)
    THEN <<NumericLiteral(qualifier \o <<".">> \o name)>>
    ELSE IF name # <<>>
         THEN <<QualifiedIdentifier(qualifier, name)>>
         ELSE <<Identifier(qualifier), Punctuator(".")>>

\* the tokens the final else branch pushes for a character
OtherCharTokens(ch) ==
    IF ch \in PUNCTUATORS THEN <<Punctuator(ch)>>
    ELSE IF <<ch>> \in OPERATOR_SET THEN <<Operator(<<ch>>)>>
    ELSE IF ~IsWhitespace(ch) THEN <<Identifier(<<ch>>)>>
    ELSE <<>>

\* the body of the scan loop of parse_single_identifier at character i
ScanStep(s, i, st) ==
    IF i < st.next THEN st ELSE
    LET ch == s[i]
        nx == [st EXCEPT !.next = i + 1]
    IN
      IF ch = "'"
      THEN IF st.in_quotes
           THEN [nx EXCEPT !.in_quotes = FALSE,
                           !.toks = Append(@, StringLiteral(st.quote_content)),
                           !.quote_content = <<>>]
           ELSE [nx EXCEPT !.in_quotes = TRUE,
                           !.toks = @ \o FlushAcc(st.acc),
                           !.acc = <<>>]
      ELSE IF st.in_quotes
      THEN [nx EXCEPT !.quote_content = Append(@, ch)]
      ELSE IF ch = BACKTICK
      THEN IF st.in_backticks
           THEN [nx EXCEPT !.in_backticks = FALSE,
                           !.toks = Append(@, Identifier(st.backtick_content)),
                           !.backtick_content = <<>>]
           ELSE [nx EXCEPT !.in_backticks = TRUE,
                           !.toks = @ \o FlushAcc(st.acc),
                           !.acc = <<>>]
      ELSE IF st.in_backticks
      THEN [nx EXCEPT !.backtick_content = Append(@, ch)]
      ELSE IF IsAlphanumeric(ch) \/ ch = "_"
      THEN [nx EXCEPT !.acc = Append(@, ch)]
      ELSE IF ch = "."
      THEN LET e == NameEnd(s, i + 1)
               name == Slice(s, i + 1, e - 1)
           IN [nx EXCEPT !.toks = @ \o DotTokens(st.acc, name),
                         !.acc = <<>>,
                         !.next = e]
      ELSE [nx EXCEPT !.toks = @ \o FlushAcc(st.acc) \o OtherCharTokens(ch),
                      !.acc = <<>>]

\* what is pushed after the scan loop of parse_single_identifier
EndOfWordTokens(st) ==
    FlushAcc(st.acc)
    \o (IF st.in_backticks /\ st.backtick_content # <<>>
        THEN <<Identifier(st.backtick_content)>>
        ELSE <<>>)

parse_single_identifier(identifier) ==
    LET st == PosFold(ScanStep, identifier, 1, Len(identifier),
                      [toks |-> <<>>, acc |-> <<>>, next |-> 1,
                       in_backticks |-> FALSE, in_quotes |-> FALSE,
                       backtick_content |-> <<>>, quote_content |-> <<>>])
    IN st.toks \o EndOfWordTokens(st)

EachWordStep(words, i, toks) == toks \o parse_single_identifier(words[i])

parse_identifier(identifier) ==
    LET spaced == Replace(Replace(Replace(Replace(identifier,
                      <<"(">>, <<" ", "(", " ">>),
                      <<")">>, <<" ", ")", " ">>),
                      <<",">>, <<" ", ",", " ">>),
                      <<";">>, <<" ", ";", " ">>)
        words == SplitWhitespace(spaced)
    IN PosFold(EachWordStep, words, 1, Len(words), <<>>)

\* the restoration of a quoted word's inner text in tokenize
RestoreInner(inner) ==
    Replace(Replace(Replace(inner, SPACE_MARK, <<" ">>), <<"'", "'">>, <<"'">>),
            COMMA_MARK, <<",">>)

\* the body of tokenize's loop for one word: the tokens it pushes, or an abort
TokenizeWord(raw_word) ==
    LET c == raw_word[Len(raw_word)]
        has_last == raw_word # <<>> /\ c \in {",", ";"}
        last_char == IF has_last THEN <<Punctuator(c)>> ELSE <<>>
    IN
    IF has_last /\ ~SliceOK(raw_word, 0, Len(raw_word) - 1) THEN Abort
    ELSE
    LET word == IF has_last THEN RustSlice(raw_word, 0, Len(raw_word) - 1) ELSE raw_word
        dt == try_parse_data_type(word)
    IN
    IF word = <<>> THEN Tokens(last_char)
    ELSE IF dt.panic THEN Abort
    ELSE IF dt.tok.some THEN Tokens(<<dt.tok.v>> \o last_char)
    ELSE IF ToUppercase(word) \in KEYWORDS THEN Tokens(<<Keyword(word)>> \o last_char)
    ELSE IF AllAsciiDigits(word) THEN Tokens(<<NumericLiteral(word)>> \o last_char)
    ELSE IF StartsWithAt(word, 1, <<"'">>) /\ EndsWith(word, <<"'">>) /\ Len(word) >= 2
         THEN IF ~SliceOK(word, 1, Len(word) - 1) THEN Abort
              ELSE Tokens(<<StringLiteral(RestoreInner(RustSlice(word, 1, Len(word) - 1)))>>
                          \o last_char)
    ELSE IF word \in OPERATOR_SET THEN Tokens(<<Operator(word)>> \o last_char)
    ELSE IF Len(word) = 1 /\ word[1] \in PUNCTUATORS
         THEN Tokens(<<Punctuator(word[1])>> \o last_char)
    ELSE IF StartsWithAt(word, 1, <<BACKTICK>>) /\ EndsWith(word, <<BACKTICK>>) /\ Len(word) >= 2
         THEN IF ~SliceOK(word, 1, Len(word) - 1) THEN Abort
              ELSE Tokens(<<Identifier(RustSlice(word, 1, Len(word) - 1))>> \o last_char)
    ELSE Tokens(parse_identifier(word) \o last_char)

\* tokenize's loop over the words
WordStep(words, i, st) ==
    IF st.panic THEN st
    ELSE LET w == TokenizeWord(words[i])
         IN IF w.panic THEN Abort ELSE Tokens(st.toks \o w.toks)

tokenize(input) ==
    LET words == SplitWhitespace(preprocess_input(input))
    IN PosFold(WordStep, words, 1, Len(words), Tokens(<<>>))

----------------------------------------------------------------------------
(* The token cursor (parser/mod.rs).  current counts from 0 as in the code; *)
(* the token at position c is tokens[c + 1].                                *)

peek(cur) == IF cur < Len(tokens) THEN Some(tokens[cur + 1]) ELSE None

\* A usize argument n is written k for the value k and -k for 2^64 - k, the
\* values a 64-bit build wraps to.  cur + n is then the sum as the machine
\* keeps it: below 0 it stands for a value near 2^64, and it has overflowed
\* when n is one of the large values and the sum is 0 or more.
AddOverflows(cur, n) == n < 0 /\ cur + n >= 0

peek_n(cur, n) ==
    IF cur + n >= 0 /\ cur + n < Len(tokens) THEN Some(tokens[cur + n + 1]) ELSE None

consume_token(cur) ==
    IF cur < Len(tokens)
    THEN [tok |-> Some(tokens[cur + 1]), cur |-> cur + 1]
    ELSE [tok |-> None, cur |-> cur]

\* Parser::next, which the clause parsers call to step over the token they
\* just looked at
next(cur) == consume_token(cur).cur

has_more(cur) == cur < Len(tokens)

\* skip moving the cursor by n without the min
skip_unclamped(cur, n) == cur + n

skip(cur, n) == IF cur + n < 0 THEN Len(tokens) ELSE Min(cur + n, Len(tokens))

\* back leaving the cursor where it is
back_in_place(cur) == cur

back(cur) == IF cur > 0 THEN cur - 1 ELSE cur

PeekIs(cur, type) == peek(cur).some /\ peek(cur).v.type = type

is_punctuator(cur, punctuator) ==
    PeekIs(cur, "Punctuator") /\ peek(cur).v.ch = punctuator

\* is_keyword comparing the letters as written
is_keyword_exact_case(cur, keyword) ==
    PeekIs(cur, "Keyword") /\ peek(cur).v.text = keyword

is_keyword(cur, keyword) ==
    PeekIs(cur, "Keyword") /\ ToUppercase(peek(cur).v.text) = ToUppercase(keyword)

is_operator(cur, operator) ==
    PeekIs(cur, "Operator") /\ peek(cur).v.text = operator

\* the match helpers: whether the token matched, and the cursor they leave
match_punctuator(cur, punctuator) ==
    IF is_punctuator(cur, punctuator)
    THEN [hit |-> TRUE, cur |-> consume_token(cur).cur]
    ELSE [hit |-> FALSE, cur |-> cur]

match_keyword(cur, keyword) ==
    IF is_keyword(cur, keyword)
    THEN [hit |-> TRUE, cur |-> consume_token(cur).cur]
    ELSE [hit |-> FALSE, cur |-> cur]

match_operator(cur, operator) ==
    IF is_operator(cur, operator)
    THEN [hit |-> TRUE, cur |-> consume_token(cur).cur]
    ELSE [hit |-> FALSE, cur |-> cur]

----------------------------------------------------------------------------
(* Results and diagnostics                                                  *)

Ok(v) == [ok |-> TRUE, val |-> v]
ParseError(message, token_position) ==
    [ok |-> FALSE, panic |-> FALSE, message |-> message, token_position |-> token_position]
\* an abort of the program: todo!() or an out-of-range slice
Panic(why) == [ok |-> FALSE, panic |-> TRUE, why |-> why]

format_token(token) ==
    CASE token.type = "Keyword" -> [kind |-> "text", text |-> token.text]
      [] token.type = "Identifier" -> [kind |-> "text", text |-> token.text]
      [] token.type = "StringLiteral" ->
            [kind |-> "text", text |-> <<"'">> \o token.text \o <<"'">>]
      [] token.type = "NumericLiteral" -> [kind |-> "text", text |-> token.text]
      [] token.type = "Punctuator" -> [kind |-> "text", text |-> <<token.ch>>]
      [] OTHER -> [kind |-> "debug", token |-> token]

\* the context window: the formatted tokens[start..end], the one at the cursor
\* marked; an abort when the slice is out of range
get_error_context(cur) ==
    LET start == IF cur > 3 THEN cur - 3 ELSE 0
        end == Min(cur + 2, Len(tokens))
    IN IF ~SliceOK(tokens, start, end) THEN Panic("slice")
       ELSE Ok([i \in 1..(end - start) |->
                  [marker |-> (start + i - 1 = cur),
                   shown |-> format_token(tokens[start + i])]])

\* get_parse_error: text is the fixed part of the message, found the value
\* formatted into it
get_parse_error(cur, text, found) ==
    LET context == get_error_context(cur)
    IN IF ~context.ok THEN context
       ELSE ParseError([text |-> text, found |-> found, near |-> context.val], cur)

NoArg == [none |-> TRUE]

\* the clause-order check asking for an ordinal at least two above
move_current_idx_two_above(cur, current_idx, clause_idx, get_clause_name) ==
    IF clause_idx > current_idx + 1
    THEN Ok(clause_idx)
    ELSE LET context == get_error_context(cur)
         IN IF ~context.ok THEN context
            ELSE ParseError([text |-> "clause out of order, expected after",
                             clause |-> get_clause_name[clause_idx],
                             after |-> get_clause_name[current_idx],
                             near |-> context.val], cur)

\* common.rs: the clause-order check
move_current_idx(cur, current_idx, clause_idx, get_clause_name) ==
    IF clause_idx > current_idx
    THEN Ok(clause_idx)
    ELSE LET context == get_error_context(cur)
         IN IF ~context.ok THEN context
            ELSE ParseError([text |-> "clause out of order, expected after",
                             clause |-> get_clause_name[clause_idx],
                             after |-> get_clause_name[current_idx],
                             near |-> context.val], cur)

----------------------------------------------------------------------------
(* Numbers.  A 64-bit value is kept as its decimal numeral without leading  *)
(* zeros, which TLC's 32-bit integers cannot hold.                          *)

I64_MAX == <<"9","2","2","3","3","7","2","0","3","6","8","5","4","7","7","5","8","0","7">>
U64_MAX == <<"1","8","4","4","6","7","4","4","0","7","3","7","0","9","5","5","1","6","1","5">>

DigitValue(c) == (CHOOSE i \in 1..10 : DigitChars[i] = c) - 1

StripLeadingZeros(d) ==
    LET nz == {i \in 1..Len(d) : d[i] # "0"}
    IN IF nz = {} THEN <<"0">>
       ELSE Slice(d, CHOOSE i \in nz : \A j \in nz : i <= j, Len(d))

StripTrailingZeros(d) ==
    LET nz == {i \in 1..Len(d) : d[i] # "0"}
    IN IF nz = {} THEN <<>>
       ELSE Slice(d, 1, CHOOSE i \in nz : \A j \in nz : i >= j)

\* a <= b for numerals without leading zeros
NumeralLE(a, b) ==
    \/ Len(a) < Len(b)
    \/ /\ Len(a) = Len(b)
       /\ \/ a = b
          \/ \E i \in 1..Len(a) :
                /\ DigitValue(a[i]) < DigitValue(b[i])
                /\ \A j \in 1..(i - 1) : a[j] = b[j]

\* the parse of a token text without the test of the range
ParseIntegerUnbounded(text, max) ==
    IF text = <<>> \/ ~AllAsciiDigits(text) THEN None
    ELSE Some(StripLeadingZeros(text))

\* str::parse::<i64> / ::<u64> of a token text (which carries no sign)
ParseInteger(text, max) ==
    IF text = <<>> \/ ~AllAsciiDigits(text) THEN None
    ELSE IF NumeralLE(StripLeadingZeros(text), max)
         THEN Some(StripLeadingZeros(text))
         ELSE None

\* str::parse::<f64> of a token text with a '.': digits '.' digits, at least
\* one digit, then an optional exponent e<digits>.  The value is kept as the
\* decimal it denotes; the rounding to binary is not modelled.
ParseFloat(text) ==
    LET dot == FindChar(text, ".")
        es == {i \in 1..Len(text) : text[i] \in {"e", "E"}}
        e == IF es = {} THEN Len(text) + 1 ELSE CHOOSE i \in es : \A j \in es : i <= j
        whole == Slice(text, 1, dot - 1)
        frac == Slice(text, dot + 1, e - 1)
        exp == Slice(text, e + 1, Len(text))
    IN IF /\ dot > 0 /\ dot < e
          /\ AllAsciiDigits(whole) /\ AllAsciiDigits(frac)
          /\ Len(whole) + Len(frac) > 0
          /\ (e <= Len(text) => exp # <<>> /\ AllAsciiDigits(exp))
       THEN Some([whole |-> StripLeadingZeros(whole),
                  frac |-> StripTrailingZeros(frac),
                  exp |-> StripLeadingZeros(exp)])
       ELSE None

----------------------------------------------------------------------------
(* Clause parsers that call no expression parser.  Each returns the result  *)
(* and the cursor it leaves: [res |-> Ok(..) or an error, cur |-> position]. *)

Leaf(res, cur) == [res |-> res, cur |-> cur]
Fail(cur, text, found) == Leaf(get_parse_error(cur, text, found), cur)

TableReference(name, alias) == [name |-> name, alias |-> alias]

\* parse_table_reference with AS matched whatever the flag
parse_table_reference_as_always(cur, allow_as_keyword) ==
    IF ~PeekIs(cur, "Identifier")
    THEN Fail(cur, "Expected table name, found", peek(cur))
    ELSE
    LET name == peek(cur).v.text
        c1 == next(cur)
        as == match_keyword(c1, K["AS"])
    IN IF as.hit
       THEN IF PeekIs(as.cur, "Identifier")
            THEN Leaf(Ok(TableReference(name, Some(peek(as.cur).v.text))), next(as.cur))
            ELSE Fail(as.cur, "Expected alias after AS, found", peek(as.cur))
       ELSE IF PeekIs(c1, "Identifier")
            THEN Leaf(Ok(TableReference(name, Some(peek(c1).v.text))), next(c1))
            ELSE Leaf(Ok(TableReference(name, None)), c1)

\* common.rs parse_table_reference
parse_table_reference(cur, allow_as_keyword) ==
    IF ~PeekIs(cur, "Identifier")
    THEN Fail(cur, "Expected table name, found", peek(cur))
    ELSE
    LET name == peek(cur).v.text
        c1 == next(cur)
        as == IF allow_as_keyword THEN match_keyword(c1, K["AS"]) ELSE [hit |-> FALSE, cur |-> c1]
    IN IF as.hit
       THEN IF PeekIs(as.cur, "Identifier")
            THEN Leaf(Ok(TableReference(name, Some(peek(as.cur).v.text))), next(as.cur))
            ELSE Fail(as.cur, "Expected alias after AS, found", peek(as.cur))
       ELSE IF PeekIs(c1, "Identifier")
            THEN Leaf(Ok(TableReference(name, Some(peek(c1).v.text))), next(c1))
            ELSE Leaf(Ok(TableReference(name, None)), c1)

LimitClause(limit, offset) == [limit |-> limit, offset |-> offset]

\* common.rs parse_limit
parse_limit(cur) ==
    IF ~PeekIs(cur, "NumericLiteral")
    THEN Fail(cur, "Expected integer after LIMIT, found", peek(cur))
    ELSE
    LET limit == ParseInteger(peek(cur).v.text, U64_MAX)
        c1 == next(cur)
        off == match_keyword(c1, K["OFFSET"])
    IN IF ~limit.some THEN Fail(cur, "Invalid number after LIMIT, found", peek(cur))
       ELSE IF ~off.hit THEN Leaf(Ok(LimitClause(limit.v, None)), c1)
       ELSE IF ~PeekIs(off.cur, "NumericLiteral")
            THEN Fail(off.cur, "Expected integer after OFFSET, found", peek(off.cur))
       ELSE LET offset == ParseInteger(peek(off.cur).v.text, U64_MAX)
            IN IF ~offset.some
               THEN Fail(off.cur, "Invalid number after OFFSET, found", peek(off.cur))
               ELSE Leaf(Ok(LimitClause(limit.v, Some(offset.v))), next(off.cur))

----------------------------------------------------------------------------
(* SELECT (parser/select.rs).  The file has its own parse_table_reference,  *)
(* parse_expr, parse_group_exr, parse_order_by, parse_limit and             *)
(* move_current_idx, which parse_select_statement calls; they carry the     *)
(* prefix sel_ here.                                                         *)

SEL_FROM_IDX == 0
SEL_WHERE_IDX == 1
SEL_GROUP_BY_IDX == 2
SEL_HAVING_IDX == 3
SEL_ORDER_BY_IDX == 4
SEL_LIMIT_IDX == 5

sel_get_clause_name(idx) ==
    CASE idx = SEL_WHERE_IDX -> "WHERE"
      [] idx = SEL_GROUP_BY_IDX -> "GROUP BY"
      [] idx = SEL_HAVING_IDX -> "HAVING"
      [] idx = SEL_ORDER_BY_IDX -> "ORDER BY"
      [] idx = SEL_LIMIT_IDX -> "LIMIT"
      [] OTHER -> "FROM"

sel_move_current_idx(cur, current_idx, clause_idx) ==
    IF clause_idx > current_idx
    THEN Ok(clause_idx)
    ELSE LET context == get_error_context(cur)
         IN IF ~context.ok THEN context
            ELSE ParseError([text |-> "clause out of order, expected after",
                             clause |-> sel_get_clause_name(clause_idx),
                             after |-> sel_get_clause_name(current_idx),
                             near |-> context.val], cur)

sel_parse_table_reference(cur) ==
    IF ~PeekIs(cur, "Identifier")
    THEN Fail(cur, "Expected table name, found", peek(cur))
    ELSE
    LET name == peek(cur).v.text
        as == match_keyword(next(cur), K["AS"])
    IN IF as.hit
       THEN IF PeekIs(as.cur, "Identifier")
            THEN Leaf(Ok(TableReference(name, Some(peek(as.cur).v.text))), next(as.cur))
            ELSE Fail(as.cur, "Expected alias after AS, found", peek(as.cur))
       ELSE Leaf(Ok(TableReference(name, None)), as.cur)

Wildcard == [kind |-> "Wildcard"]
Column(name, alias) == [kind |-> "Column", name |-> name, alias |-> alias]

parse_select_column(cur) ==
    IF ~PeekIs(cur, "Identifier")
    THEN Fail(cur, "Expected column name, found", peek(cur))
    ELSE
    LET name == peek(cur).v.text
        as == match_keyword(next(cur), K["AS"])
    IN IF as.hit
       THEN IF PeekIs(as.cur, "Identifier")
            THEN Leaf(Ok(Column(name, Some(peek(as.cur).v.text))), next(as.cur))
            ELSE Fail(as.cur, "Expected alias after AS, found", peek(as.cur))
       ELSE Leaf(Ok(Column(name, None)), as.cur)

\* the column loop of parse_select_columns, columns parsed so far
RECURSIVE SelectColumnsLoop(_, _)
SelectColumnsLoop(cur, columns) ==
    LET col == parse_select_column(cur)
    IN IF ~col.res.ok THEN col
       ELSE LET comma == match_punctuator(col.cur, ",")
                cols == Append(columns, col.res.val)
            IN IF comma.hit THEN SelectColumnsLoop(comma.cur, cols)
               ELSE Leaf(Ok(cols), comma.cur)

parse_select_columns(cur) ==
    LET star == match_keyword(cur, K["*"])
    IN IF star.hit THEN Leaf(Ok(<<Wildcard>>), star.cur)
       ELSE SelectColumnsLoop(cur, <<>>)

\* select.rs: these four bodies are todo!()
sel_parse_expr(cur) == Leaf(Panic("todo"), cur)
sel_parse_group_exr(cur) == Leaf(Panic("todo"), cur)
sel_parse_order_by(cur) == Leaf(Panic("todo"), cur)
sel_parse_limit(cur) == Leaf(Panic("todo"), cur)

\* The optional clauses of parse_select_statement, in the order it tries them.
\* Each takes the parse so far, s = [res, cur, current_idx]: the result (the
\* statement when Ok), the cursor and the index of the last clause read; an
\* error so far is passed on, as the ? of the code returns it.
SelectWhere(s) ==
    LET kw == match_keyword(s.cur, K["WHERE"])
        mv == sel_move_current_idx(kw.cur, s.current_idx, SEL_WHERE_IDX)
        r == sel_parse_expr(kw.cur)
    IN IF ~s.res.ok \/ ~kw.hit THEN s
       ELSE IF ~mv.ok THEN [s EXCEPT !.res = mv, !.cur = kw.cur]
       ELSE IF ~r.res.ok THEN [s EXCEPT !.res = r.res, !.cur = r.cur]
       ELSE [res |-> Ok([s.res.val EXCEPT !.where_clause = Some(r.res.val)]),
             cur |-> r.cur, current_idx |-> mv.val]

SelectGroupBy(s) ==
    LET kw == match_keyword(s.cur, K["GROUP"])
        by == match_keyword(kw.cur, K["BY"])
        mv == sel_move_current_idx(by.cur, s.current_idx, SEL_GROUP_BY_IDX)
        r == sel_parse_group_exr(by.cur)
    IN IF ~s.res.ok \/ ~kw.hit THEN s
       ELSE IF ~by.hit
            THEN [s EXCEPT !.res = get_parse_error(by.cur, "Expected BY after GROUP, found",
                                                   peek(by.cur)),
                           !.cur = by.cur]
       ELSE IF ~mv.ok THEN [s EXCEPT !.res = mv, !.cur = by.cur]
       ELSE IF ~r.res.ok THEN [s EXCEPT !.res = r.res, !.cur = r.cur]
       ELSE [res |-> Ok([s.res.val EXCEPT !.group_by = Some(r.res.val)]),
             cur |-> r.cur, current_idx |-> mv.val]

SelectHaving(s) ==
    LET kw == match_keyword(s.cur, K["HAVING"])
        mv == sel_move_current_idx(kw.cur, s.current_idx, SEL_HAVING_IDX)
        r == sel_parse_expr(kw.cur)
    IN IF ~s.res.ok \/ ~kw.hit THEN s
       ELSE IF ~mv.ok THEN [s EXCEPT !.res = mv, !.cur = kw.cur]
       ELSE IF ~r.res.ok THEN [s EXCEPT !.res = r.res, !.cur = r.cur]
       ELSE [res |-> Ok([s.res.val EXCEPT !.having = Some(r.res.val)]),
             cur |-> r.cur, current_idx |-> mv.val]

SelectOrderBy(s) ==
    LET kw == match_keyword(s.cur, K["ORDER"])
        by == match_keyword(kw.cur, K["BY"])
        mv == sel_move_current_idx(by.cur, s.current_idx, SEL_ORDER_BY_IDX)
        r == sel_parse_order_by(by.cur)
    IN IF ~s.res.ok \/ ~kw.hit THEN s
       ELSE IF ~by.hit
            THEN [s EXCEPT !.res = get_parse_error(by.cur, "Expected BY after ORDER, found",
                                                   peek(by.cur)),
                           !.cur = by.cur]
       ELSE IF ~mv.ok THEN [s EXCEPT !.res = mv, !.cur = by.cur]
       ELSE IF ~r.res.ok THEN [s EXCEPT !.res = r.res, !.cur = r.cur]
       ELSE [res |-> Ok([s.res.val EXCEPT !.order_by = Some(r.res.val)]),
             cur |-> r.cur, current_idx |-> mv.val]

\* the last clause: the statement or the error is what the function returns
SelectLimit(s) ==
    LET kw == match_keyword(s.cur, K["LIMIT"])
        mv == sel_move_current_idx(kw.cur, s.current_idx, SEL_LIMIT_IDX)
        r == sel_parse_limit(kw.cur)
    IN IF ~s.res.ok \/ ~kw.hit THEN Leaf(s.res, s.cur)
       ELSE IF ~mv.ok THEN Leaf(mv, kw.cur)
       ELSE IF ~r.res.ok THEN r
       ELSE Leaf(Ok([s.res.val EXCEPT !.limit = Some(r.res.val)]), r.cur)

SelectFrom(cur) ==
    Bind(match_keyword(cur, K["SELECT"]), LAMBDA sel :
    IF ~sel.hit
    THEN [res |-> get_parse_error(cur, "Expected SELECT, found", peek(cur)), cur |-> cur,
          current_idx |-> SEL_FROM_IDX]
    ELSE
    Bind(parse_select_columns(sel.cur), LAMBDA columns :
    IF ~columns.res.ok
    THEN [res |-> columns.res, cur |-> columns.cur, current_idx |-> SEL_FROM_IDX]
    ELSE
    Bind(match_keyword(columns.cur, K["FROM"]), LAMBDA from_kw :
    IF ~from_kw.hit
    THEN [res |-> get_parse_error(from_kw.cur, "Expected FROM, found", peek(from_kw.cur)),
          cur |-> from_kw.cur, current_idx |-> SEL_FROM_IDX]
    ELSE
    Bind(sel_parse_table_reference(from_kw.cur), LAMBDA from :
    IF ~from.res.ok
    THEN [res |-> from.res, cur |-> from.cur, current_idx |-> SEL_FROM_IDX]
    ELSE [res |-> Ok([columns |-> columns.res.val, from |-> from.res.val,
                      where_clause |-> None, group_by |-> None, having |-> None,
                      order_by |-> None, limit |-> None]),
          cur |-> from.cur, current_idx |-> SEL_FROM_IDX]))))

parse_select_statement(cur) ==
    SelectLimit(SelectOrderBy(SelectHaving(SelectGroupBy(SelectWhere(SelectFrom(cur))))))

----------------------------------------------------------------------------
(* The call stack of the parse functions that reach the expression parser. *)
(* A machine state m is [cur, stack, ret].  A frame is [fn, pc, depth,     *)
(* loc]: the function, the place it resumes at (0: its entry), its depth   *)
(* argument and its locals.  Each function below maps m, whose top frame    *)
(* is a call of it, to the state at its next call or return.                *)

Frame(fn, depth, loc) == [fn |-> fn, pc |-> 0, depth |-> depth, loc |-> loc]
NoLocals == [none |-> TRUE]

Top(m) == m.stack[Len(m.stack)]

\* call callee, to resume at pc with locals loc and the cursor at cur
Call(m, cur, pc, loc, callee) ==
    [cur |-> cur,
     stack |-> Append([m.stack EXCEPT ![Len(m.stack)] = [@ EXCEPT !.pc = pc, !.loc = loc]],
                      callee),
     ret |-> m.ret]

\* return r to the caller, leaving the cursor at cur
Return(m, cur, r) ==
    [cur |-> cur, stack |-> Slice(m.stack, 1, Len(m.stack) - 1), ret |-> r]

\* return the result of a clause parser, leaving the cursor where it left it
ReturnLeaf(m, r) == Return(m, r.cur, r.res)

\* return a parse error made at cur
ReturnError(m, cur, text, found) == Return(m, cur, get_parse_error(cur, text, found))

----------------------------------------------------------------------------
(* The expression parser (parser/expr.rs)                                   *)

MAX_EXPR_DEPTH == 100

ExprIdentifier(name) == [kind |-> "Identifier", name |-> name]
ExprWildcard == [kind |-> "Wildcard"]
Literal(value) == [kind |-> "Literal", value |-> value]
BinaryOp(left, op, right) == [kind |-> "BinaryOp", left |-> left, op |-> op, right |-> right]
LogicalOp(op, expressions) == [kind |-> "LogicalOp", op |-> op, expressions |-> expressions]
UnaryOp(op, expr) == [kind |-> "UnaryOp", op |-> op, expr |-> expr]

ValueString(s) == [type |-> "String", v |-> s]
ValueInteger(i) == [type |-> "Integer", v |-> i]
ValueFloat(f) == [type |-> "Float", v |-> f]
ValueNull == [type |-> "Null"]

\* parse_expr refusing the depth MAX_EXPR_DEPTH itself
parse_expr_bound_included(m) ==
    LET f == Top(m) IN
    IF f.pc = 0
    THEN IF f.depth >= MAX_EXPR_DEPTH
         THEN ReturnError(m, m.cur, "Expression nesting too deep", NoArg)
         ELSE Call(m, m.cur, 1, f.loc, Frame("parse_logical_or", f.depth, NoLocals))
    ELSE Return(m, m.cur, m.ret)

parse_expr(m) ==
    LET f == Top(m) IN
    IF f.pc = 0
    THEN IF f.depth > MAX_EXPR_DEPTH
         THEN ReturnError(m, m.cur, "Expression nesting too deep", NoArg)
         ELSE Call(m, m.cur, 1, f.loc, Frame("parse_logical_or", f.depth, NoLocals))
    ELSE Return(m, m.cur, m.ret)

\* the while loop of parse_logical_or testing for OR without consuming it
LogicalOrLoopKeywordLeft(m, expr) ==
    IF is_keyword(m.cur, K["OR"])
    THEN Call(m, m.cur, 2, [expr |-> expr],
              Frame("parse_logical_and", Top(m).depth, NoLocals))
    ELSE Return(m, m.cur, Ok(expr))

\* the while loop of parse_logical_or with expr parsed so far
LogicalOrLoop(m, expr) ==
    LET kw == match_keyword(m.cur, K["OR"])
    IN IF kw.hit
       THEN Call(m, kw.cur, 2, [expr |-> expr],
                 Frame("parse_logical_and", Top(m).depth, NoLocals))
       ELSE Return(m, m.cur, Ok(expr))

\* parse_logical_or folding a chain of OR into one node with all its operands
parse_logical_or_flat(m) ==
    LET f == Top(m) IN
    IF f.pc = 0
    THEN Call(m, m.cur, 1, f.loc, Frame("parse_logical_and", f.depth, NoLocals))
    ELSE IF ~m.ret.ok THEN Return(m, m.cur, m.ret)
    ELSE IF f.pc = 1 THEN LogicalOrLoop(m, m.ret.val)
    ELSE IF f.loc.expr.kind = "LogicalOp" /\ f.loc.expr.op = "Or"
    THEN LogicalOrLoop(m, LogicalOp("Or", Append(f.loc.expr.expressions, m.ret.val)))
    ELSE LogicalOrLoop(m, LogicalOp("Or", <<f.loc.expr, m.ret.val>>))

parse_logical_or(m) ==
    LET f == Top(m) IN
    IF f.pc = 0
    THEN Call(m, m.cur, 1, f.loc, Frame("parse_logical_and", f.depth, NoLocals))
    ELSE IF ~m.ret.ok THEN Return(m, m.cur, m.ret)
    ELSE IF f.pc = 1 THEN LogicalOrLoop(m, m.ret.val)
    ELSE LogicalOrLoop(m, LogicalOp("Or", <<f.loc.expr, m.ret.val>>))

\* the while loop of parse_logical_and with expr parsed so far
LogicalAndLoop(m, expr) ==
    LET kw == match_keyword(m.cur, K["AND"])
    IN IF kw.hit
       THEN Call(m, kw.cur, 2, [expr |-> expr], Frame("parse_not", Top(m).depth, NoLocals))
       ELSE Return(m, m.cur, Ok(expr))

parse_logical_and(m) ==
    LET f == Top(m) IN
    IF f.pc = 0
    THEN Call(m, m.cur, 1, f.loc, Frame("parse_not", f.depth, NoLocals))
    ELSE IF ~m.ret.ok THEN Return(m, m.cur, m.ret)
    ELSE IF f.pc = 1 THEN LogicalAndLoop(m, m.ret.val)
    ELSE LogicalAndLoop(m, LogicalOp("And", <<f.loc.expr, m.ret.val>>))

parse_not(m) ==
    LET f == Top(m)
        kw == match_keyword(m.cur, K["NOT"])
    IN
    IF f.pc = 0
    THEN IF kw.hit
         THEN Call(m, kw.cur, 1, f.loc, Frame("parse_comparison", f.depth, NoLocals))
         ELSE Call(m, m.cur, 2, f.loc, Frame("parse_comparison", f.depth, NoLocals))
    ELSE IF ~m.ret.ok THEN Return(m, m.cur, m.ret)
    ELSE IF f.pc = 1 THEN Return(m, m.cur, Ok(LogicalOp("Not", <<m.ret.val>>)))
    ELSE Return(m, m.cur, m.ret)

\* Some(operator) and the cursor past it when the current token is a
\* comparison operator, else None and the cursor where it was
match_comparison_operator(cur) ==
    LET op == peek(cur).v.text
        r == IF ~PeekIs(cur, "Operator") THEN None
             ELSE CASE op = <<"=">> -> Some("Eq")
                    [] op \in {<<"!", "=">>, <<"<", ">">>} -> Some("NotEq")
                    [] op = <<"<">> -> Some("Lt")
                    [] op = <<"<", "=">> -> Some("LtEq")
                    [] op = <<">">> -> Some("Gt")
                    [] op = <<">", "=">> -> Some("GtEq")
                    [] OTHER -> None
    IN [op |-> r, cur |-> IF r.some THEN consume_token(cur).cur ELSE cur]

parse_comparison(m) ==
    LET f == Top(m)
        cmp == match_comparison_operator(m.cur)
    IN
    IF f.pc = 0
    THEN Call(m, m.cur, 1, f.loc, Frame("parse_additive", f.depth, NoLocals))
    ELSE IF ~m.ret.ok THEN Return(m, m.cur, m.ret)
    ELSE IF f.pc = 1
    THEN IF cmp.op.some
         THEN Call(m, cmp.cur, 2, [left |-> m.ret.val, op |-> cmp.op.v],
                   Frame("parse_additive", f.depth, NoLocals))
         ELSE Return(m, m.cur, Ok(m.ret.val))
    ELSE Return(m, m.cur, Ok(BinaryOp(f.loc.left, f.loc.op, m.ret.val)))

\* parse_additive's loop taking its right operand from parse_unary
AdditiveLoopUnaryOperand(m, expr) ==
    IF PeekIs(m.cur, "Operator") /\ peek(m.cur).v.text \in {<<"+">>, <<"-">>}
    THEN Call(m, consume_token(m.cur).cur, 2,
              [expr |-> expr,
               binary_op |-> IF peek(m.cur).v.text = <<"+">> THEN "Plus" ELSE "Minus"],
              Frame("parse_unary", Top(m).depth, NoLocals))
    ELSE Return(m, m.cur, Ok(expr))

\* the while loop of parse_additive with expr parsed so far
AdditiveLoop(m, expr) ==
    IF PeekIs(m.cur, "Operator") /\ peek(m.cur).v.text \in {<<"+">>, <<"-">>}
    THEN Call(m, consume_token(m.cur).cur, 2,
              [expr |-> expr,
               binary_op |-> IF peek(m.cur).v.text = <<"+">> THEN "Plus" ELSE "Minus"],
              Frame("parse_multiplicative", Top(m).depth, NoLocals))
    ELSE Return(m, m.cur, Ok(expr))

parse_additive(m) ==
    LET f == Top(m) IN
    IF f.pc = 0
    THEN Call(m, m.cur, 1, f.loc, Frame("parse_multiplicative", f.depth, NoLocals))
    ELSE IF ~m.ret.ok THEN Return(m, m.cur, m.ret)
    ELSE IF f.pc = 1 THEN AdditiveLoop(m, m.ret.val)
    ELSE AdditiveLoop(m, BinaryOp(f.loc.expr, f.loc.binary_op, m.ret.val))

\* the while loop of parse_multiplicative with expr parsed so far
MultiplicativeLoop(m, expr) ==
    IF PeekIs(m.cur, "Operator") /\ peek(m.cur).v.text \in {<<"*">>, <<"/">>}
    THEN Call(m, consume_token(m.cur).cur, 2,
              [expr |-> expr,
               binary_op |-> IF peek(m.cur).v.text = <<"*">> THEN "Multiply" ELSE "Divide"],
              Frame("parse_unary", Top(m).depth, NoLocals))
    ELSE Return(m, m.cur, Ok(expr))

parse_multiplicative(m) ==
    LET f == Top(m) IN
    IF f.pc = 0
    THEN Call(m, m.cur, 1, f.loc, Frame("parse_unary", f.depth, NoLocals))
    ELSE IF ~m.ret.ok THEN Return(m, m.cur, m.ret)
    ELSE IF f.pc = 1 THEN MultiplicativeLoop(m, m.ret.val)
    ELSE MultiplicativeLoop(m, BinaryOp(f.loc.expr, f.loc.binary_op, m.ret.val))

parse_unary(m) ==
    LET f == Top(m) IN
    IF f.pc = 0
    THEN IF PeekIs(m.cur, "Operator") /\ peek(m.cur).v.text \in {<<"+">>, <<"-">>}
         THEN Call(m, consume_token(m.cur).cur, 1, [op |-> peek(m.cur).v.text],
                   Frame("parse_unary", f.depth, NoLocals))
         ELSE Call(m, m.cur, 2, f.loc, Frame("parse_primary", f.depth, NoLocals))
    ELSE IF f.pc = 1
    THEN IF ~m.ret.ok THEN Return(m, m.cur, m.ret)
         ELSE IF f.loc.op = <<"-">>
              THEN Return(m, m.cur, Ok(UnaryOp("Minus", m.ret.val)))
              ELSE Return(m, m.cur, Ok(m.ret.val))
    ELSE Return(m, m.cur, m.ret)

\* the literal arms of parse_primary reading the integer as an u64
NumericPrimaryU64(n) ==
    IF FindChar(n, ".") > 0
    THEN LET f == ParseFloat(n)
         IN IF f.some THEN Some(Literal(ValueFloat(f.v))) ELSE None
    ELSE LET i == ParseInteger(n, U64_MAX)
         IN IF i.some THEN Some(Literal(ValueInteger(i.v))) ELSE None

\* the literal arms of parse_primary for a numeric token text n
NumericPrimary(n) ==
    IF FindChar(n, ".") > 0
    THEN LET f == ParseFloat(n)
         IN IF f.some THEN Some(Literal(ValueFloat(f.v))) ELSE None
    ELSE LET i == ParseInteger(n, I64_MAX)
         IN IF i.some THEN Some(Literal(ValueInteger(i.v))) ELSE None

parse_primary(m) ==
    LET f == Top(m)
        c == consume_token(m.cur)
        c_token == c.tok.v
        close == match_punctuator(m.cur, ")")
    IN
    IF f.pc = 0
    THEN IF ~c.tok.some
         THEN ReturnError(m, m.cur, "Expected primary expression, but found none", NoArg)
         ELSE CASE c_token.type = "NumericLiteral" ->
                     IF NumericPrimary(c_token.text).some
                     THEN Return(m, c.cur, Ok(NumericPrimary(c_token.text).v))
                     ELSE ReturnError(m, c.cur,
                              IF FindChar(c_token.text, ".") > 0 THEN "Invalid float:"
                              ELSE "Invalid integer:", c_token.text)
                [] c_token.type = "StringLiteral" ->
                     Return(m, c.cur, Ok(Literal(ValueString(c_token.text))))
                [] c_token.type = "Identifier" ->
                     Return(m, c.cur, Ok(ExprIdentifier(c_token.text)))
                [] c_token.type = "QualifiedIdentifier" ->
                     Return(m, c.cur,
                            Ok(ExprIdentifier(c_token.qualifier \o <<".">> \o c_token.name)))
                [] c_token.type = "Punctuator" /\ c_token.ch = "(" ->
                     Call(m, c.cur, 1, f.loc, Frame("parse_expr", f.depth + 1, NoLocals))
                [] c_token.type = "Keyword" /\ ToUppercase(c_token.text) = K["NULL"] ->
                     Return(m, c.cur, Ok(Literal(ValueNull)))
                [] c_token.type = "Punctuator" /\ c_token.ch = "*" ->
                     Return(m, c.cur, Ok(ExprWildcard))
                [] OTHER ->
                     ReturnError(m, c.cur, "Unexpected token in primary expression:", c_token)
    ELSE IF ~m.ret.ok THEN Return(m, m.cur, m.ret)
    ELSE IF ~close.hit
         THEN ReturnError(m, m.cur, "Expect ')' expression, found:", peek(m.cur))
         ELSE Return(m, close.cur, Ok(m.ret.val))

----------------------------------------------------------------------------
(* ORDER BY (parser/common.rs) and DELETE (parser/delete.rs)                *)

OrderByExpr(expr, asc) == [expr |-> expr, asc |-> asc]

parse_order_by(m) ==
    LET f == Top(m)
        desc == match_keyword(m.cur, K["DESC"])
        asc == IF desc.hit THEN desc ELSE match_keyword(m.cur, K["ASC"])
        order == OrderByExpr(m.ret.val, ~desc.hit)
        comma == match_punctuator(asc.cur, ",")
    IN
    IF f.pc = 0
    THEN Call(m, m.cur, 1, [order_by |-> <<>>], Frame("parse_expr", 0, NoLocals))
    ELSE IF ~m.ret.ok THEN Return(m, m.cur, m.ret)
    ELSE IF comma.hit
         THEN Call(m, comma.cur, 1, [order_by |-> Append(f.loc.order_by, order)],
                   Frame("parse_expr", 0, NoLocals))
         ELSE Return(m, comma.cur, Ok(Append(f.loc.order_by, order)))

DEL_FROM_IDX == 0
DEL_WHERE_IDX == 1
DEL_ORDER_BY_IDX == 2
DEL_LIMIT_IDX == 3

del_get_clause_name ==
    [idx \in 0..255 |->
    CASE idx = DEL_WHERE_IDX -> "WHERE"
      [] idx = DEL_ORDER_BY_IDX -> "ORDER BY"
      [] idx = DEL_LIMIT_IDX -> "LIMIT"
      [] OTHER -> "FROM"]

DeleteStatement(loc) ==
    [table |-> loc.table, where_clause |-> loc.where_clause, order_by |-> loc.order_by,
     limit |-> loc.limit, is_return_count |-> TRUE]

\* parse_delete_statement from its LIMIT clause on
DeleteLimit(m, loc) ==
    Bind(match_keyword(m.cur, K["LIMIT"]), LAMBDA kw :
    IF ~kw.hit THEN Return(m, m.cur, Ok(DeleteStatement(loc)))
    ELSE
    Bind(move_current_idx(kw.cur, loc.current_idx, DEL_LIMIT_IDX, del_get_clause_name),
         LAMBDA mv :
    IF ~mv.ok THEN Return(m, kw.cur, mv)
    ELSE
    Bind(parse_limit(kw.cur), LAMBDA limit :
    IF ~limit.res.ok THEN Return(m, limit.cur, limit.res)
    ELSE Return(m, limit.cur,
                Ok(DeleteStatement([loc EXCEPT !.limit = Some(limit.res.val)]))))))

\* ... from its ORDER BY clause on
DeleteOrderBy(m, loc) ==
    Bind(match_keyword(m.cur, K["ORDER"]), LAMBDA kw :
    IF ~kw.hit THEN DeleteLimit(m, loc)
    ELSE
    Bind(match_keyword(kw.cur, K["BY"]), LAMBDA by :
    IF ~by.hit THEN ReturnError(m, by.cur, "Expected BY after ORDER, found", peek(by.cur))
    ELSE
    Bind(move_current_idx(by.cur, loc.current_idx, DEL_ORDER_BY_IDX, del_get_clause_name),
         LAMBDA mv :
    IF ~mv.ok THEN Return(m, by.cur, mv)
    ELSE Call(m, by.cur, 2, [loc EXCEPT !.current_idx = mv.val],
              Frame("parse_order_by", 0, NoLocals)))))

\* ... from its WHERE clause on
DeleteWhere(m, loc) ==
    Bind(match_keyword(m.cur, K["WHERE"]), LAMBDA kw :
    IF ~kw.hit THEN DeleteOrderBy(m, loc)
    ELSE
    Bind(move_current_idx(kw.cur, loc.current_idx, DEL_WHERE_IDX, del_get_clause_name),
         LAMBDA mv :
    IF ~mv.ok THEN Return(m, kw.cur, mv)
    ELSE Call(m, kw.cur, 1, [loc EXCEPT !.current_idx = mv.val],
              Frame("parse_expr", 0, NoLocals))))

\* parse_delete_statement up to its WHERE clause
DeleteFrom(m) ==
    Bind(match_keyword(m.cur, K["DELETE"]), LAMBDA del :
    IF ~del.hit THEN ReturnError(m, m.cur, "Expected DELETE, found", peek(m.cur))
    ELSE
    Bind(match_keyword(del.cur, K["FROM"]), LAMBDA from :
    IF ~from.hit THEN ReturnError(m, from.cur, "Expected FROM, found", peek(from.cur))
    ELSE
    Bind(parse_table_reference(from.cur, FALSE), LAMBDA table :
    IF ~table.res.ok THEN Return(m, table.cur, table.res)
    ELSE DeleteWhere([m EXCEPT !.cur = table.cur],
                     [table |-> table.res.val, current_idx |-> DEL_FROM_IDX,
                      where_clause |-> None, order_by |-> None, limit |-> None]))))

parse_delete_statement(m) ==
    IF Top(m).pc = 0 THEN DeleteFrom(m)
    ELSE IF ~m.ret.ok THEN Return(m, m.cur, m.ret)
    ELSE IF Top(m).pc = 1
         THEN DeleteOrderBy(m, [Top(m).loc EXCEPT !.where_clause = Some(m.ret.val)])
         ELSE DeleteLimit(m, [Top(m).loc EXCEPT !.order_by = Some(m.ret.val)])

----------------------------------------------------------------------------
(* INSERT (parser/insert.rs)                                                *)

INTO_IDX == 0
VALUES_IDX == 1
ON_DUPLICATE_KEY_UPDATE_IDX == 2

ins_get_clause_name ==
    [idx \in 0..255 |->
    CASE idx = INTO_IDX -> "INTO"
      [] idx = VALUES_IDX -> "VALUES"
      [] idx = ON_DUPLICATE_KEY_UPDATE_IDX -> "ON_DUPLICATE_KEY_UPDATE"
      [] OTHER -> "INTO"]

parse_select_clause(cur) ==
    IF is_keyword(cur, K["SELECT"])
    THEN Bind(parse_select_statement(cur), LAMBDA select_statement :
         IF ~select_statement.res.ok THEN select_statement
         ELSE Leaf(Ok(Some(select_statement.res.val)), select_statement.cur))
    ELSE Leaf(Ok(None), cur)

\* the column loop of parse_insert_columns, column_list parsed so far
RECURSIVE InsertColumnsLoop(_, _)
InsertColumnsLoop(cur, column_list) ==
    IF ~PeekIs(cur, "Identifier") THEN Fail(cur, "Expected column name", NoArg)
    ELSE LET cols == Append(column_list, peek(cur).v.text)
             comma == match_punctuator(consume_token(cur).cur, ",")
             close == match_punctuator(comma.cur, ")")
         IN IF comma.hit THEN InsertColumnsLoop(comma.cur, cols)
            ELSE IF ~close.hit THEN Fail(close.cur, "Expected closing parenthesis", NoArg)
            ELSE Leaf(Ok(Some(cols)), close.cur)

\* parse_insert_columns returning no column list for ()
parse_insert_columns_empty_is_none(cur) ==
    LET open == match_punctuator(cur, "(")
        close == match_punctuator(open.cur, ")")
    IN IF ~open.hit \/ close.hit THEN Leaf(Ok(None), close.cur)
       ELSE InsertColumnsLoop(open.cur, <<>>)

parse_insert_columns(cur) ==
    LET open == match_punctuator(cur, "(")
        close == match_punctuator(open.cur, ")")
    IN IF ~open.hit THEN Leaf(Ok(None), cur)
       ELSE IF close.hit THEN Leaf(Ok(Some(<<>>)), close.cur)
       ELSE InsertColumnsLoop(open.cur, <<>>)

parse_default_values(cur) ==
    LET def == match_keyword(cur, K["DEFAULT"])
        vals == match_keyword(def.cur, K["VALUES"])
    IN IF ~def.hit THEN Leaf(Ok(FALSE), cur)
       ELSE IF vals.hit THEN Leaf(Ok(TRUE), vals.cur)
       ELSE Fail(vals.cur, "Expected VALUES after DEFAULT, found", peek(vals.cur))

\* parse_values_clause at the start of a parenthesised row
RECURSIVE ValuesRow(_, _)
ValuesRow(m, values) ==
    LET open == match_punctuator(m.cur, "(")
        close == match_punctuator(open.cur, ")")
        comma == match_punctuator(close.cur, ",")
    IN IF ~open.hit THEN ReturnError(m, m.cur, "Expected opening parenthesis", NoArg)
       ELSE IF ~close.hit
            THEN Call(m, open.cur, 1, [values |-> values, value_list |-> <<>>],
                      Frame("parse_expr", 0, NoLocals))
       ELSE IF comma.hit
            THEN ValuesRow([m EXCEPT !.cur = comma.cur], Append(values, <<>>))
       ELSE Return(m, comma.cur, Ok(Some(Append(values, <<>>))))

parse_values_clause(m) ==
    LET f == Top(m)
        kw == match_keyword(m.cur, K["VALUES"])
        value_list == Append(f.loc.value_list, m.ret.val)
        comma == match_punctuator(m.cur, ",")
        close == match_punctuator(m.cur, ")")
        more == match_punctuator(close.cur, ",")
    IN
    IF f.pc = 0
    THEN IF kw.hit THEN ValuesRow([m EXCEPT !.cur = kw.cur], <<>>)
         ELSE Return(m, m.cur, Ok(None))
    ELSE IF ~m.ret.ok THEN Return(m, m.cur, m.ret)
    ELSE IF comma.hit
         THEN Call(m, comma.cur, 1, [f.loc EXCEPT !.value_list = value_list],
                   Frame("parse_expr", 0, NoLocals))
    ELSE IF ~close.hit THEN ReturnError(m, m.cur, "Expected closing parenthesis", NoArg)
    ELSE IF more.hit
         THEN ValuesRow([m EXCEPT !.cur = more.cur], Append(f.loc.values, value_list))
    ELSE Return(m, more.cur, Ok(Some(Append(f.loc.values, value_list))))

\* a "column = expr" assignment of a SET or ON DUPLICATE KEY UPDATE list up to
\* its expression, with the assignments parsed so far
Assignment(m, list) ==
    LET c == consume_token(m.cur)
        eq == match_operator(c.cur, <<"=">>)
    IN IF ~PeekIs(m.cur, "Identifier")
       THEN ReturnError(m, m.cur, "Expected column name", NoArg)
       ELSE IF ~eq.hit THEN ReturnError(m, eq.cur, "Expected = after column name", NoArg)
       ELSE Call(m, eq.cur, 1, [list |-> list, column |-> peek(m.cur).v.text],
                 Frame("parse_expr", 0, NoLocals))

parse_set_clause(m) ==
    LET f == Top(m)
        kw == match_keyword(m.cur, K["SET"])
        set_clause == Append(f.loc.list, <<f.loc.column, m.ret.val>>)
        comma == match_punctuator(m.cur, ",")
    IN
    IF f.pc = 0
    THEN IF kw.hit THEN Assignment([m EXCEPT !.cur = kw.cur], <<>>)
         ELSE Return(m, m.cur, Ok(None))
    ELSE IF ~m.ret.ok THEN Return(m, m.cur, m.ret)
    ELSE IF comma.hit THEN Assignment([m EXCEPT !.cur = comma.cur], set_clause)
    ELSE Return(m, comma.cur, Ok(Some(set_clause)))

OnDuplicateClause(updates) == [updates |-> updates]

parse_on_duplicate_key_update(m) ==
    LET f == Top(m)
        on == match_keyword(m.cur, K["ON"])
        dup == match_keyword(on.cur, K["DUPLICATE"])
        key == match_keyword(dup.cur, K["KEY"])
        upd == match_keyword(key.cur, K["UPDATE"])
        updates == Append(f.loc.list, <<f.loc.column, m.ret.val>>)
        comma == match_punctuator(m.cur, ",")
    IN
    IF f.pc = 0
    THEN IF ~on.hit THEN Return(m, m.cur, Ok(None))
         ELSE IF ~dup.hit THEN ReturnError(m, dup.cur, "Expected DUPLICATE after ON", NoArg)
         ELSE IF ~key.hit
              THEN ReturnError(m, key.cur, "Expected KEY after ON DUPLICATE", NoArg)
         ELSE IF ~upd.hit
              THEN ReturnError(m, upd.cur, "Expected UPDATE after ON DUPLICATE KEY", NoArg)
         ELSE Assignment([m EXCEPT !.cur = upd.cur], <<>>)
    ELSE IF ~m.ret.ok THEN Return(m, m.cur, m.ret)
    ELSE IF comma.hit THEN Assignment([m EXCEPT !.cur = comma.cur], updates)
    ELSE Return(m, comma.cur, Ok(Some(OnDuplicateClause(updates))))

InsertStatement(loc, on_duplicate) ==
    [table |-> loc.table, columns |-> loc.columns, values |-> loc.values,
     select_clause |-> loc.select_clause, set_clause |-> loc.set_clause,
     on_duplicate |-> on_duplicate, is_default_values |-> loc.is_default_values,
     is_return_count |-> TRUE]

\* the count of data sources left out: every statement passes both tests
DataSourcesNotCounted(loc) == 1

\* the number of data sources parse_insert_statement counts
DataSources(loc) ==
    Cardinality({i \in 1..4 :
        <<loc.is_default_values, loc.values.some, loc.set_clause.some,
          loc.select_clause.some>>[i]})

\* parse_insert_statement once the SELECT source has been tried: the count of
\* the data sources, then the ON DUPLICATE KEY UPDATE clause
InsertDataSources(m, loc, select_clause) ==
    IF ~select_clause.res.ok THEN Return(m, select_clause.cur, select_clause.res)
    ELSE IF DataSources([loc EXCEPT !.select_clause = select_clause.res.val]) > 1
         THEN ReturnError(m, select_clause.cur,
                          "Cannot specify multiple value sources", NoArg)
    ELSE IF DataSources([loc EXCEPT !.select_clause = select_clause.res.val]) = 0
         THEN ReturnError(m, select_clause.cur,
                          "Expected VALUES, SELECT, DEFAULT VALUES or SET", NoArg)
    ELSE Call(m, select_clause.cur, 3,
              [loc EXCEPT !.select_clause = select_clause.res.val],
              Frame("parse_on_duplicate_key_update", 0, [list |-> <<>>, column |-> <<>>]))

\* parse_insert_statement up to its VALUES clause
InsertInto(m) ==
    Bind(match_keyword(m.cur, K["INSERT"]), LAMBDA ins :
    IF ~ins.hit THEN ReturnError(m, m.cur, "Expected INSERT, found", peek(m.cur))
    ELSE
    Bind(match_keyword(ins.cur, K["INTO"]), LAMBDA into :
    IF ~into.hit THEN ReturnError(m, into.cur, "Expected INTO, found", peek(into.cur))
    ELSE
    Bind(parse_table_reference(into.cur, FALSE), LAMBDA table :
    IF ~table.res.ok THEN Return(m, table.cur, table.res)
    ELSE
    Bind(parse_insert_columns(table.cur), LAMBDA columns :
    IF ~columns.res.ok THEN Return(m, columns.cur, columns.res)
    ELSE
    Bind(parse_default_values(columns.cur), LAMBDA is_default_values :
    IF ~is_default_values.res.ok
    THEN Return(m, is_default_values.cur, is_default_values.res)
    ELSE IF columns.res.val.some /\ is_default_values.res.val
    THEN ReturnError(m, is_default_values.cur,
                     "Cannot specify columns with DEFAULT VALUES", NoArg)
    ELSE Call(m, is_default_values.cur, 1,
              [table |-> table.res.val, columns |-> columns.res.val,
               is_default_values |-> is_default_values.res.val,
               values |-> None, set_clause |-> None, select_clause |-> None],
              Frame("parse_values_clause", 0, [values |-> <<>>, value_list |-> <<>>])))))))

parse_insert_statement(m) ==
    IF Top(m).pc = 0 THEN InsertInto(m)
    ELSE IF ~m.ret.ok THEN Return(m, m.cur, m.ret)
    ELSE IF Top(m).pc = 1
    THEN Call(m, m.cur, 2, [Top(m).loc EXCEPT !.values = m.ret.val],
              Frame("parse_set_clause", 0, [list |-> <<>>, column |-> <<>>]))
    ELSE IF Top(m).pc = 2
    THEN InsertDataSources(m, [Top(m).loc EXCEPT !.set_clause = m.ret.val],
                           parse_select_clause(m.cur))
    ELSE
    Bind(move_current_idx(m.cur, VALUES_IDX, ON_DUPLICATE_KEY_UPDATE_IDX, ins_get_clause_name),
         LAMBDA mv :
    IF m.ret.val.some /\ ~mv.ok THEN Return(m, m.cur, mv)
    ELSE Return(m, m.cur, Ok(InsertStatement(Top(m).loc, m.ret.val))))

----------------------------------------------------------------------------
(* The parser as a state machine                                            *)

\* the machine after the function of the top frame has run to its next call
\* or to its return
Dispatch(m) ==
    LET fn == Top(m).fn IN
    CASE fn = "parse_expr" -> parse_expr(m)
      [] fn = "parse_logical_or" -> parse_logical_or(m)
      [] fn = "parse_logical_and" -> parse_logical_and(m)
      [] fn = "parse_not" -> parse_not(m)
      [] fn = "parse_comparison" -> parse_comparison(m)
      [] fn = "parse_additive" -> parse_additive(m)
      [] fn = "parse_multiplicative" -> parse_multiplicative(m)
      [] fn = "parse_unary" -> parse_unary(m)
      [] fn = "parse_primary" -> parse_primary(m)
      [] fn = "parse_order_by" -> parse_order_by(m)
      [] fn = "parse_delete_statement" -> parse_delete_statement(m)
      [] fn = "parse_values_clause" -> parse_values_clause(m)
      [] fn = "parse_set_clause" -> parse_set_clause(m)
      [] fn = "parse_on_duplicate_key_update" -> parse_on_duplicate_key_update(m)
      [] fn = "parse_insert_statement" -> parse_insert_statement(m)
      [] fn = "parse_select_statement" -> ReturnLeaf(m, parse_select_statement(m.cur))
      [] fn = "parse_table_reference(true)" ->
             ReturnLeaf(m, parse_table_reference(m.cur, TRUE))
      [] fn = "parse_table_reference(false)" ->
             ReturnLeaf(m, parse_table_reference(m.cur, FALSE))
      [] fn = "parse_limit" -> ReturnLeaf(m, parse_limit(m.cur))

NoResult == [ok |-> FALSE, panic |-> FALSE, pending |-> TRUE]

\* Parser::new_from_sql: tokenize the text, cursor at the first token
NewFromSql ==
    /\ phase = "new"
    /\ \E t \in {tokenize(sql)} :
          /\ tokens' = t.toks
          /\ phase' = IF t.panic THEN "abort" ELSE "ready"
    /\ current' = 0
    /\ UNCHANGED <<sql, entry, call_stack, ret, result>>

\* a caller applies preprocess_input to the text it holds, and holds the
\* output in its place
PreprocessInput ==
    /\ entry = "preprocess_input"
    /\ phase \in {"new", "done"}
    /\ sql' = preprocess_input(sql)
    /\ phase' = "done"
    /\ UNCHANGED <<entry, tokens, current, call_stack, ret, result>>

\* the caller invokes the entry function on the fresh parser
Begin ==
    /\ phase = "ready"
    /\ call_stack' = <<Frame(entry, 0, NoLocals)>>
    /\ phase' = "run"
    /\ UNCHANGED <<sql, entry, tokens, current, ret, result>>

\* run the top frame to its next call or return; the entry function's return
\* is the result
Step ==
    /\ phase = "run"
    /\ \E m \in {Dispatch([cur |-> current, stack |-> call_stack, ret |-> ret])} :
          /\ current' = m.cur
          /\ call_stack' = m.stack
          /\ ret' = m.ret
          /\ phase' = IF m.stack = <<>> THEN "done" ELSE "run"
          /\ result' = IF m.stack = <<>> THEN m.ret ELSE result
    /\ UNCHANGED <<sql, entry, tokens>>

\* the state after construction: the text to parse and the function to call
InitWith(texts, entries) ==
    /\ sql \in texts
    /\ entry \in entries
    /\ tokens = <<>>
    /\ current = 0
    /\ call_stack = <<>>
    /\ ret = NoResult
    /\ phase = "new"
    /\ result = NoResult

----------------------------------------------------------------------------
(* Input texts                                                              *)

\* the texts made of at most n of the fragments frags, one after the other
RECURSIVE Concats(_, _)
Concats(frags, n) ==
    IF n = 0 THEN {<<>>}
    ELSE LET shorter == Concats(frags, n - 1)
         IN shorter \cup {s \o f : s \in shorter, f \in frags}

\* the words ws joined by single spaces
RECURSIVE Join(_)
Join(ws) ==
    IF ws = <<>> THEN <<>>
    ELSE IF Len(ws) = 1 THEN ws[1]
    ELSE ws[1] \o <<" ">> \o Join(Tail(ws))

----------------------------------------------------------------------------
(* The tokenizer on arbitrary text                                          *)

MaxFrags == 4

TokenizeFragments ==
    {<<"I", "N", "T">>, <<"(">>, <<")">>, <<"1">>, <<"'">>, <<BACKTICK>>, <<" ">>,
     <<",">>, <<";">>, <<".">>, <<"a">>, <<"-", "-">>, <<"/", "*">>, <<"*", "/">>}

TokenizeNext == NewFromSql
SpecTokenize ==
    /\ InitWith(Concats(TokenizeFragments, MaxFrags), {"tokenize"})
    /\ [][TokenizeNext]_vars

TokenTypes ==
    {"Keyword", "Identifier", "StringLiteral", "NumericLiteral", "Operator",
     "Punctuator", "DataType", "QualifiedIdentifier"}

\* C1: tokenize returns a sequence of tokens on every text: no text makes it
\* abort on an out-of-range slice (trailing punctuator, quotes, backticks,
\* TYPE(N) length), and it has no error result.
C1_TokenizeNeverAborts ==
    /\ phase # "abort"
    /\ phase = "ready" => \A i \in 1..Len(tokens) : tokens[i].type \in TokenTypes

\* a TYPE(N) word was sliced into its name and its length
C1_Witness ==
    /\ phase = "ready"
    /\ sql = <<"I", "N", "T", "(", "1", ")">>
    /\ tokens = <<DataType(<<"I", "N", "T">>, Some(<<"1">>))>>

----------------------------------------------------------------------------
(* String literals                                                          *)

MaxLiteralLen == 4

LiteralChars == {"a", "b", " ", ",", "_", "-"}

\* the text 's': s wrapped in single quotes
Quoted(s) == <<"'">> \o s \o <<"'">>

LiteralTexts == {Quoted(s) : s \in Concats({<<c>> : c \in LiteralChars}, MaxLiteralLen)}

SpecLiteral == InitWith(LiteralTexts, {"tokenize"}) /\ [][TokenizeNext]_vars

\* C2: for a string s of letters, spaces, commas, underscores and dashes,
\* the text 's' tokenizes to exactly one token, StringLiteral(s), s unchanged.
C2_LiteralKeepsItsText ==
    phase = "ready" => tokens = <<StringLiteral(Slice(sql, 2, Len(sql) - 1))>>

----------------------------------------------------------------------------
(* Preprocessing twice                                                      *)

MaxPreChars == 4

PreChars == {"'", " ", ",", "a", "-", "\n"}

PreprocessNext == PreprocessInput
SpecPreprocess ==
    /\ InitWith(Concats({<<c>> : c \in PreChars}, MaxPreChars), {"preprocess_input"})
    /\ [][PreprocessNext]_vars

\* C11: preprocess_input is idempotent: applied to a text that is already its
\* own output, it returns that text unchanged.
C11_PreprocessIdempotent == [][phase = "done" => sql' = sql]_vars

----------------------------------------------------------------------------
(* Operator precedence                                                      *)

MaxOps == 3

OperandNames == <<"x", "y", "z", "u", "v", "w">>
ChainOps == {<<"+">>, <<"-">>, <<"*">>, <<"/">>, <<"=">>, K["OR"], K["AND"]}

ChainPrefixes == {<<>>, <<<<"-">>>>, <<K["NOT"]>>}

\* the word sequences  x op y op z ...  with k infix operators and no
\* parentheses, after an optional prefix operator
RECURSIVE ExprChains(_)
ExprChains(k) ==
    IF k = 0 THEN {p \o <<<<OperandNames[1]>>>> : p \in ChainPrefixes}
    ELSE {c \o <<o, <<OperandNames[k + 1]>>>> : c \in ExprChains(k - 1), o \in ChainOps}

ChainTexts == UNION {{Join(c) : c \in ExprChains(k)} : k \in 0..MaxOps}

ExprNext == NewFromSql \/ Begin \/ Step
SpecPrecedence == InitWith(ChainTexts, {"parse_expr"}) /\ [][ExprNext]_vars

\* the tier of the grammar that builds a node: the larger, the tighter
Tier(e) ==
    CASE e.kind = "LogicalOp" /\ e.op = "Or" -> 1
      [] e.kind = "LogicalOp" /\ e.op = "And" -> 2
      [] e.kind = "LogicalOp" /\ e.op = "Not" -> 3
      [] e.kind = "BinaryOp" /\ e.op \in {"Plus", "Minus"} -> 5
      [] e.kind = "BinaryOp" /\ e.op \in {"Multiply", "Divide"} -> 6
      [] e.kind = "BinaryOp" -> 4
      [] e.kind = "UnaryOp" -> 7
      [] OTHER -> 8

Operands(e) ==
    CASE e.kind = "LogicalOp" -> e.expressions
      [] e.kind = "BinaryOp" -> <<e.left, e.right>>
      [] e.kind = "UnaryOp" -> <<e.expr>>
      [] OTHER -> <<>>

\* no node of the tree has an operand built by a looser tier
RECURSIVE TighterBelow(_)
TighterBelow(e) ==
    \A i \in 1..Len(Operands(e)) :
        Tier(Operands(e)[i]) >= Tier(e) /\ TighterBelow(Operands(e)[i])

\* the node an infix operator word builds from its two operands
Infix(o, l, r) ==
    CASE o = K["OR"] -> LogicalOp("Or", <<l, r>>)
      [] o = K["AND"] -> LogicalOp("And", <<l, r>>)
      [] o = <<"+">> -> BinaryOp(l, "Plus", r)
      [] o = <<"-">> -> BinaryOp(l, "Minus", r)
      [] o = <<"*">> -> BinaryOp(l, "Multiply", r)
      [] o = <<"/">> -> BinaryOp(l, "Divide", r)

X == ExprIdentifier(<<"x">>)
Y == ExprIdentifier(<<"y">>)
Z == ExprIdentifier(<<"z">>)

\* C7: parse_expr builds trees by precedence.  In  x a y b z  with a looser
\* than b (+ before *, OR before AND, ...) the node of a is the root and its
\* right operand is the node of b over y and z; otherwise the node of a over x
\* and y is the left operand of b.  In no tree built from text without
\* parentheses is a tighter operator the parent of a looser one.
C7_Precedence ==
    phase = "done" =>
        /\ result.ok
        /\ TighterBelow(result.val)
        /\ \A a, b \in ChainOps \ {<<"=">>} :
              sql = Join(<<<<"x">>, a, <<"y">>, b, <<"z">>>>) =>
                 result.val = IF Tier(Infix(a, X, Y)) < Tier(Infix(b, X, Y))
                              THEN Infix(a, X, Infix(b, Y, Z))
                              ELSE Infix(b, Infix(a, X, Y), Z)

\* x + y * z has been parsed to Plus(x, Multiply(y, z))
C7_Witness ==
    /\ phase = "done"
    /\ sql = Join(<<<<"x">>, <<"+">>, <<"y">>, <<"*">>, <<"z">>>>)
    /\ result = Ok(BinaryOp(X, "Plus", BinaryOp(Y, "Multiply", Z)))

----------------------------------------------------------------------------
(* Nesting depth                                                            *)

MaxNest == 102

\* the operand x wrapped in n balanced pairs of parentheses
Nested(n) == [i \in 1..(2 * n + 1) |-> IF i <= n THEN "(" ELSE IF i = n + 1 THEN "x" ELSE ")"]

NestDepths == 0..MaxNest

SpecNesting == InitWith({Nested(n) : n \in NestDepths}, {"parse_expr"}) /\ [][ExprNext]_vars

\* the number of pairs of parentheses of a text Nested(n)
NestingOf(text) == (Len(text) - 1) \div 2

\* the result r is an abort of the program, not a value or a parse error
Aborted(r) == ~r.ok /\ r.panic

\* C8: parse_expr(0) on an operand in n balanced pairs of parentheses returns
\* the parse error "Expression nesting too deep" when n > 100 and the
\* operand's expression when n <= 100, and never aborts.
C8_NestingBound ==
    phase = "done" =>
        /\ ~Aborted(result)
        /\ IF NestingOf(sql) > 100
           THEN ~result.ok /\ result.message.text = "Expression nesting too deep"
           ELSE result = Ok(X)

\* 101 pairs of parentheses have been refused with the parse error
C8_Witness ==
    /\ phase = "done"
    /\ NestingOf(sql) = 101
    /\ ~result.ok
    /\ ~result.panic
    /\ result.message.text = "Expression nesting too deep"

----------------------------------------------------------------------------
(* DELETE statements                                                        *)

MaxDeleteClauses == 3

\* the sequences of at most n elements of S
RECURSIVE SeqsUpTo(_, _)
SeqsUpTo(S, n) ==
    IF n = 0 THEN {<<>>}
    ELSE LET shorter == SeqsUpTo(S, n - 1)
         IN shorter \cup {Append(q, e) : q \in shorter, e \in S}

\* the sequences of a sequence of sequences, one after the other
RECURSIVE Flatten(_)
Flatten(qs) == IF qs = <<>> THEN <<>> ELSE qs[1] \o Flatten(Tail(qs))

W_users == <<"u", "s", "e", "r", "s">>
W_id == <<"i", "d">>
W_name == <<"n", "a", "m", "e">>

DeleteWhereWords == <<K["WHERE"], W_id, <<"=">>, <<"1">>>>
DeleteOrderByWords == <<K["ORDER"], K["BY"], W_name>>
DeleteLimitWords == <<K["LIMIT"], <<"1", "0">>>>
DeleteClauseWords == {DeleteWhereWords, DeleteOrderByWords, DeleteLimitWords}

\* DELETE FROM users followed by the clauses cs
DeleteText(cs) == Join(<<K["DELETE"], K["FROM"], W_users>> \o Flatten(cs))

DeleteTexts == {DeleteText(cs) : cs \in SeqsUpTo(DeleteClauseWords, MaxDeleteClauses)}

DeleteNext == NewFromSql \/ Begin \/ Step
SpecDelete == InitWith(DeleteTexts, {"parse_delete_statement"}) /\ [][DeleteNext]_vars

\* the keyword kw is written somewhere in the statement
Written(kw) == \E i \in 1..Len(tokens) : tokens[i] = Keyword(kw)

DeleteExample ==
    [table |-> [name |-> W_users, alias |-> None],
     where_clause |-> Some(BinaryOp(ExprIdentifier(W_id), "Eq",
                                    Literal(ValueInteger(<<"1">>)))),
     order_by |-> Some(<<OrderByExpr(ExprIdentifier(W_name), TRUE)>>),
     limit |-> Some([limit |-> <<"1", "0">>, offset |-> None]),
     is_return_count |-> TRUE]

\* C9: DELETE FROM users WHERE id = 1 ORDER BY name LIMIT 10 parses to the
\* statement DeleteExample, and every successful parse_delete_statement sets
\* is_return_count and carries exactly the clauses written: a clause of the
\* result is present exactly when its keyword is written in the statement.
C9_DeleteCarriesItsClauses ==
    phase = "done" =>
        /\ sql = DeleteText(<<DeleteWhereWords, DeleteOrderByWords, DeleteLimitWords>>)
              => result = Ok(DeleteExample)
        /\ result.ok =>
              /\ result.val.is_return_count
              /\ result.val.where_clause.some <=> Written(K["WHERE"])
              /\ result.val.order_by.some <=> Written(K["ORDER"])
              /\ result.val.limit.some <=> Written(K["LIMIT"])

----------------------------------------------------------------------------
(* INSERT statements: the data sources                                      *)

MaxSources == 2

W_t == <<"t">>
W_a == <<"a">>

DefaultValuesWords == <<K["DEFAULT"], K["VALUES"]>>
ValuesWords == <<K["VALUES"], <<"(", "1", ")">>>>
SetWords == <<K["SET"], W_a, <<"=">>, <<"1">>>>
SelectWords == <<K["SELECT"], W_a, K["FROM"], W_t>>
SourceWords == {DefaultValuesWords, ValuesWords, SetWords, SelectWords}

ColumnListWords == {<<>>, <<<<"(", "a", ")">>>>}

\* INSERT INTO t, the column list cols, then the data sources srcs
InsertText(cols, srcs) == Join(<<K["INSERT"], K["INTO"], W_t>> \o cols \o Flatten(srcs))

InsertSourceCases ==
    {[text |-> InsertText(cols, srcs), columns |-> cols # <<>>, sources |-> srcs] :
        cols \in ColumnListWords, srcs \in SeqsUpTo(SourceWords, MaxSources)}

InsertNext == NewFromSql \/ Begin \/ Step
SpecInsertSources ==
    /\ InitWith({c.text : c \in InsertSourceCases}, {"parse_insert_statement"})
    /\ [][InsertNext]_vars

\* C3: parse_insert_statement returns a parse error for an INSERT with none
\* of the data sources DEFAULT VALUES, VALUES, SET, SELECT and for an INSERT
\* with two or more of them in any combination, and succeeds with exactly one
\* (but for a column list before DEFAULT VALUES, which is refused earlier).
C3_ExactlyOneSource ==
    \A c \in InsertSourceCases :
        phase = "done" /\ sql = c.text =>
            /\ ~Aborted(result)
            /\ Len(c.sources) # 1 => ~result.ok
            /\ Len(c.sources) = 1 /\ ~(c.columns /\ c.sources = <<DefaultValuesWords>>)
                  => result.ok

\* the number of data sources an InsertStatement has populated
Populated(stmt) ==
    (IF stmt.is_default_values THEN 1 ELSE 0) + (IF stmt.values.some THEN 1 ELSE 0)
    + (IF stmt.set_clause.some THEN 1 ELSE 0) + (IF stmt.select_clause.some THEN 1 ELSE 0)

\* C4: every InsertStatement that parse_insert_statement returns has exactly
\* one of is_default_values, values, set_clause, select_clause populated.
C4_OneSourcePopulated ==
    phase = "done" /\ result.ok => Populated(result.val) = 1

\* a statement was returned with its VALUES rows as the one source
C4_Witness ==
    /\ phase = "done"
    /\ result.ok
    /\ result.val.values.some
    /\ ~result.val.is_default_values
    /\ ~result.val.set_clause.some
    /\ ~result.val.select_clause.some

----------------------------------------------------------------------------
(* INSERT statements: VALUES rows and ON DUPLICATE KEY UPDATE               *)

MaxItems == 2
MaxRows == 2
MaxAssignments == 2

\* the texts ws with sep between them
RECURSIVE JoinWith(_, _)
JoinWith(ws, sep) ==
    IF ws = <<>> THEN <<>>
    ELSE IF Len(ws) = 1 THEN ws[1]
    ELSE ws[1] \o sep \o JoinWith(Tail(ws), sep)

W_price == <<"p", "r", "i", "c", "e">>

\* items of a row: as written, and the expression each must become
ValueItems ==
    {[text |-> <<"1", "0", "1">>, expr |-> Literal(ValueInteger(<<"1", "0", "1">>))],
     [text |-> Quoted(<<"a", " ", "b">>), expr |-> Literal(ValueString(<<"a", " ", "b">>))],
     [text |-> <<"9", ".", "5">>,
      expr |-> Literal(ValueFloat([whole |-> <<"9">>, frac |-> <<"5">>, exp |-> <<"0">>]))]}

\* assignments of an update list: as written, and the pair each must become
Assignments ==
    {[text |-> Join(<<W_price, <<"=">>, W_price>>),
      pair |-> <<W_price, ExprIdentifier(W_price)>>],
     [text |-> Join(<<W_id, <<"=">>, <<"1">>>>),
      pair |-> <<W_id, Literal(ValueInteger(<<"1">>))>>]}

RowText(row) == <<"(">> \o JoinWith([i \in 1..Len(row) |-> row[i].text], <<",", " ">>) \o <<")">>

\* INSERT INTO t VALUES rows, then the update list when there is one
InsertValuesText(rows, updates) ==
    Join(<<K["INSERT"], K["INTO"], W_t, K["VALUES"]>>) \o <<" ">>
    \o JoinWith([i \in 1..Len(rows) |-> RowText(rows[i])], <<",", " ">>)
    \o IF updates = <<>> THEN <<>>
       ELSE <<" ">> \o Join(<<K["ON"], K["DUPLICATE"], K["KEY"], K["UPDATE"]>>) \o <<" ">>
            \o JoinWith([i \in 1..Len(updates) |-> updates[i].text], <<",", " ">>)

InsertValuesCases ==
    {[text |-> InsertValuesText(rows, updates), rows |-> rows, updates |-> updates] :
        rows \in SeqsUpTo(SeqsUpTo(ValueItems, MaxItems), MaxRows) \ {<<>>},
        updates \in SeqsUpTo(Assignments, MaxAssignments)}

\* the example of the specification
ProductsExample ==
    Join(<<
        <<"I", "N", "S", "E", "R", "T">>, <<"I", "N", "T", "O">>,
        <<"p", "r", "o", "d", "u", "c", "t", "s">>, <<"(", "i", "d", ",">>,
        <<"n", "a", "m", "e", ",">>, <<"p", "r", "i", "c", "e", ")">>,
        <<"V", "A", "L", "U", "E", "S">>, <<"(", "1", "0", "1", ",">>,
        <<"'", "L", "a", "p", "t", "o", "p", "'", ",">>,
        <<"9", "9", "9", ".", "9", "9", ")", ",">>, <<"(", "1", "0", "2", ",">>,
        <<"'", "P", "h", "o", "n", "e", "'", ",">>,
        <<"4", "9", "9", ".", "9", "9", ")">>, <<"O", "N">>,
        <<"D", "U", "P", "L", "I", "C", "A", "T", "E">>, <<"K", "E", "Y">>,
        <<"U", "P", "D", "A", "T", "E">>, <<"p", "r", "i", "c", "e">>, <<"=">>,
        <<"p", "r", "i", "c", "e">>>>)

\* the statement of test_complex_insert
ComplexInsert ==
    Join(<<
        <<"I", "N", "S", "E", "R", "T">>, <<"I", "N", "T", "O">>,
        <<"p", "r", "o", "d", "u", "c", "t", "s">>, <<"(", "i", "d", ",">>,
        <<"n", "a", "m", "e", ",">>, <<"p", "r", "i", "c", "e", ",">>,
        <<"s", "t", "o", "c", "k", ")">>, <<"V", "A", "L", "U", "E", "S">>,
        <<"(", "1", "0", "1", ",">>, <<"'", "L", "a", "p", "t", "o", "p", "'", ",">>,
        <<"9", "9", "9", ".", "9", "9", ",">>, <<"5", "0", ")", ",">>,
        <<"(", "1", "0", "2", ",">>,
        <<"'", "S", "m", "a", "r", "t", "p", "h", "o", "n", "e", "'", ",">>,
        <<"4", "9", "9", ".", "9", "9", ",">>, <<"1", "0", "0", ")">>, <<"O", "N">>,
        <<"D", "U", "P", "L", "I", "C", "A", "T", "E">>, <<"K", "E", "Y">>,
        <<"U", "P", "D", "A", "T", "E">>, <<"s", "t", "o", "c", "k">>, <<"=">>,
        <<"s", "t", "o", "c", "k">>, <<"+">>,
        <<BACKTICK, "V", "A", "L", "U", "E", "S", BACKTICK, "(", "s", "t", "o", "c", "k", ")", ",">>,
        <<"u", "p", "d", "a", "t", "e", "_", "t", "i", "m", "e">>, <<"=">>,
        <<"N", "O", "W", "(", ")">>>>)

SpecInsertValues ==
    /\ InitWith({c.text : c \in InsertValuesCases} \cup {ProductsExample, ComplexInsert},
                {"parse_insert_statement"})
    /\ [][InsertNext]_vars

\* the parse succeeded with nrows rows of values and nupdates assignments
RowsAndUpdates(nrows, nupdates) ==
    /\ result.ok
    /\ result.val.values.some
    /\ Len(result.val.values.v) = nrows
    /\ result.val.on_duplicate.some
    /\ Len(result.val.on_duplicate.v.updates) = nupdates

\* C10: in an INSERT with VALUES each parenthesised row becomes one row of
\* values in source order, float and string items keeping their values, and
\* a following ON DUPLICATE KEY UPDATE list becomes one (column, expr)
\* assignment per comma-separated col = expr in source order; the products
\* example yields 2 rows and 1 assignment, the statement of
\* test_complex_insert 2 rows and 2 assignments.
C10_RowsAndAssignments ==
    phase = "done" =>
        /\ \A c \in InsertValuesCases :
              sql = c.text =>
                 /\ result.ok
                 /\ result.val.values =
                       Some([i \in 1..Len(c.rows) |->
                               [j \in 1..Len(c.rows[i]) |-> c.rows[i][j].expr]])
                 /\ result.val.on_duplicate =
                       IF c.updates = <<>> THEN None
                       ELSE Some(OnDuplicateClause(
                                [i \in 1..Len(c.updates) |-> c.updates[i].pair]))
        /\ sql = ProductsExample => RowsAndUpdates(2, 1)
        /\ sql = ComplexInsert => RowsAndUpdates(2, 2)

----------------------------------------------------------------------------
(* SELECT statements                                                        *)

MaxSelectClauses == 5

\* the optional clauses as written, with their place in the canonical order
SelectClauses ==
    {[idx |-> SEL_WHERE_IDX, words |-> <<K["WHERE"], W_a, <<"=">>, <<"1">>>>],
     [idx |-> SEL_GROUP_BY_IDX, words |-> <<K["GROUP"], K["BY"], W_a>>],
     [idx |-> SEL_HAVING_IDX, words |-> <<K["HAVING"], W_a, <<"=">>, <<"1">>>>],
     [idx |-> SEL_ORDER_BY_IDX, words |-> <<K["ORDER"], K["BY"], W_a>>],
     [idx |-> SEL_LIMIT_IDX, words |-> <<K["LIMIT"], <<"1">>>>]}

\* SELECT a FROM t followed by the clauses cs
SelectText(cs) ==
    Join(<<K["SELECT"], W_a, K["FROM"], W_t>> \o Flatten([i \in 1..Len(cs) |-> cs[i].words]))

SelectCases ==
    {[text |-> SelectText(cs), clauses |-> cs] :
        cs \in SeqsUpTo(SelectClauses, MaxSelectClauses)}

SelectNext == NewFromSql \/ Begin \/ Step
SpecSelect ==
    /\ InitWith({c.text : c \in SelectCases}, {"parse_select_statement"})
    /\ [][SelectNext]_vars

\* in cs a WHERE clause is written after ORDER BY ... LIMIT ...
WhereAfterOrderByLimit(cs) ==
    \E i, j, k \in 1..Len(cs) :
        /\ i < j /\ j < k
        /\ cs[i].idx = SEL_ORDER_BY_IDX
        /\ cs[j].idx = SEL_LIMIT_IDX
        /\ cs[k].idx = SEL_WHERE_IDX

\* C5: parse_select_statement on a SELECT whose WHERE clause is written after
\* ORDER BY ... LIMIT ... fails with a "clause out of order" parse error whose
\* message names both WHERE and ORDER BY.
C5_WhereAfterOrderByRefused ==
    \A c \in SelectCases :
        phase = "done" /\ sql = c.text /\ WhereAfterOrderByLimit(c.clauses) =>
            /\ ~result.ok
            /\ ~result.panic
            /\ result.message.text = "clause out of order, expected after"
            /\ {"WHERE", "ORDER BY"} \subseteq {result.message.clause, result.message.after}

\* the clauses cs are written in the canonical order, each at most once
Canonical(cs) == \A i, j \in 1..Len(cs) : i < j => cs[i].idx < cs[j].idx

\* C6: parse_select_statement succeeds on every SELECT whose optional clauses
\* are written in the canonical order FROM < WHERE < GROUP BY < HAVING <
\* ORDER BY < LIMIT, and the statement it returns carries each clause written
\* and no other.
C6_CanonicalOrderAccepted ==
    \A c \in SelectCases :
        phase = "done" /\ sql = c.text /\ Canonical(c.clauses) =>
            LET written(idx) == \E i \in 1..Len(c.clauses) : c.clauses[i].idx = idx
            IN /\ result.ok
               /\ result.val.where_clause.some <=> written(SEL_WHERE_IDX)
               /\ result.val.group_by.some <=> written(SEL_GROUP_BY_IDX)
               /\ result.val.having.some <=> written(SEL_HAVING_IDX)
               /\ result.val.order_by.some <=> written(SEL_ORDER_BY_IDX)
               /\ result.val.limit.some <=> written(SEL_LIMIT_IDX)

----------------------------------------------------------------------------
(* Table aliases                                                            *)

W_x == <<"x">>

\* what may follow the table name: nothing, AS and an alias, a bare alias, AS
\* alone, AS before a keyword, each followed by nothing or by a WHERE clause
AliasForms ==
    {<<>>, <<K["AS"], W_x>>, <<<<"a", "s">>, W_x>>, <<W_x>>, <<K["AS"]>>,
     <<K["AS"], K["AS"]>>, <<W_x, W_x>>}

TableTails ==
    {<<n>> \o f \o w : n \in {W_t, W_users}, f \in AliasForms,
                       w \in {<<>>, DeleteWhereWords}}

TableTexts ==
    {Join(tail) : tail \in TableTails}
    \cup {Join(<<K["DELETE"], K["FROM"]>> \o tail) : tail \in TableTails}

TableEntries ==
    {"parse_table_reference(true)", "parse_table_reference(false)",
     "parse_delete_statement"}

TableNext == NewFromSql \/ Begin \/ Step
SpecTable == InitWith(TableTexts, TableEntries) /\ [][TableNext]_vars

TokenIs(i, type) == i <= Len(tokens) /\ tokens[i].type = type

\* the table name is the token where the table reference starts
TableNameAt(n) ==
    /\ phase = "done"
    /\ n = (IF entry = "parse_delete_statement" THEN 3 ELSE 1)
    /\ entry = "parse_delete_statement" => Len(sql) > 6 /\ SubSeq(sql, 1, 6) = K["DELETE"]
    /\ TokenIs(n, "Identifier")

ExplicitAlias(n) ==
    /\ TokenIs(n + 1, "Keyword")
    /\ ToUppercase(tokens[n + 1].text) = K["AS"]
    /\ TokenIs(n + 2, "Identifier")

BareAlias(n) == TokenIs(n + 1, "Identifier")

AliasParsed ==
    IF entry = "parse_delete_statement" THEN result.val.table.alias ELSE result.val.alias

\* C12: parse_table_reference(allow_as_keyword) takes an alias introduced by
\* AS only when allow_as_keyword is true, and takes a bare identifier after
\* the table name as the alias for either flag value; so DELETE's target
\* (called with false) gets its alias from the bare form only, and AS is left
\* unread.
C12_AliasForms ==
    \A n \in {1, 3} : TableNameAt(n) =>
        /\ ExplicitAlias(n) =>
              /\ result.ok
              /\ AliasParsed = IF entry = "parse_table_reference(true)"
                               THEN Some(tokens[n + 2].text) ELSE None
        /\ BareAlias(n) => result.ok /\ AliasParsed = Some(tokens[n + 1].text)

\* DELETE FROM t AS x: the table comes back without alias
C12_Witness ==
    /\ phase = "done"
    /\ entry = "parse_delete_statement"
    /\ sql = Join(<<K["DELETE"], K["FROM"], W_t, K["AS"], W_x>>)
    /\ result.ok
    /\ result.val.table = TableReference(W_t, None)

\* C12 as stated: an alias introduced by AS is taken for either flag value,
\* and a bare identifier is taken as the alias only when allow_as_keyword is
\* true.
C12_AsEitherBareOnlyWhenAllowed ==
    \A n \in {1, 3} : TableNameAt(n) =>
        /\ ExplicitAlias(n) => result.ok /\ AliasParsed = Some(tokens[n + 2].text)
        /\ BareAlias(n) =>
              /\ result.ok
              /\ AliasParsed = IF entry = "parse_table_reference(true)"
                               THEN Some(tokens[n + 1].text) ELSE None

----------------------------------------------------------------------------
(* A DELETE with an alias, a parenthesised condition and two sort keys      *)

\* the words of the statement of delete.rs's test_complex_delete_parser
ComplexDeleteWords ==
    <<K["DELETE"], K["FROM"], <<"e", "m", "p", "l", "o", "y", "e", "e", "s">>, <<"e">>,
      K["WHERE"], <<"(", "e", ".", "d", "e", "p", "a", "r", "t", "m", "e", "n", "t">>,
      <<"=">>, <<"'", "I", "T", "'">>, K["AND"],
      <<"e", ".", "s", "a", "l", "a", "r", "y">>, <<">">>,
      <<"1", "0", "0", "0", "0", "0", ")">>, K["OR"],
      <<"(", "e", ".", "l", "a", "s", "t", "_", "a", "c", "t", "i", "v", "e">>,
      <<"<">>, <<"'", "2", "0", "2", "3", "-", "0", "1", "-", "0", "1", "'">>,
      K["AND"], <<"e", ".", "s", "t", "a", "t", "u", "s">>, <<"=">>,
      <<"'", "i", "n", "a", "c", "t", "i", "v", "e", "'", ")">>, K["ORDER"], K["BY"],
      <<"e", ".", "l", "a", "s", "t", "_", "a", "c", "t", "i", "v", "e">>,
      <<"D", "E", "S", "C", ",">>, <<"e", ".", "n", "a", "m", "e">>, K["LIMIT"],
      <<"5", "0">>>>

W_e_department == <<"e", ".", "d", "e", "p", "a", "r", "t", "m", "e", "n", "t">>
W_e_salary == <<"e", ".", "s", "a", "l", "a", "r", "y">>
W_e_last_active == <<"e", ".", "l", "a", "s", "t", "_", "a", "c", "t", "i", "v", "e">>
W_e_status == <<"e", ".", "s", "t", "a", "t", "u", "s">>
W_e_name == <<"e", ".", "n", "a", "m", "e">>

ComplexDeleteNext == NewFromSql \/ Begin \/ Step
SpecComplexDelete ==
    /\ InitWith({Join(ComplexDeleteWords)}, {"parse_delete_statement"})
    /\ [][ComplexDeleteNext]_vars

ComplexDeleteStatement ==
    [table |-> TableReference(<<"e", "m", "p", "l", "o", "y", "e", "e", "s">>, Some(<<"e">>)),
     where_clause |->
        Some(LogicalOp("Or",
            <<LogicalOp("And",
                <<BinaryOp(ExprIdentifier(W_e_department), "Eq",
                           Literal(ValueString(<<"I", "T">>))),
                  BinaryOp(ExprIdentifier(W_e_salary), "Gt",
                           Literal(ValueInteger(<<"1", "0", "0", "0", "0", "0">>)))>>),
              LogicalOp("And",
                <<BinaryOp(ExprIdentifier(W_e_last_active), "Lt",
                           Literal(ValueString(<<"2", "0", "2", "3", "-", "0", "1", "-", "0", "1">>))),
                  BinaryOp(ExprIdentifier(W_e_status), "Eq",
                           Literal(ValueString(<<"i", "n", "a", "c", "t", "i", "v", "e">>)))>>)>>)),
     order_by |-> Some(<<OrderByExpr(ExprIdentifier(W_e_last_active), FALSE),
                         OrderByExpr(ExprIdentifier(W_e_name), TRUE)>>),
     limit |-> Some(LimitClause(<<"5", "0">>, None)),
     is_return_count |-> TRUE]

\* C13: the statement parses to table employees with alias e, the WHERE tree
\* Or[And[e.department = 'IT', e.salary > 100000], And[e.last_active <
\* '2023-01-01', e.status = 'inactive']] with each qualified column one
\* Identifier, order_by [e.last_active descending, e.name ascending] and
\* limit 50.
C13_ComplexDelete == phase = "done" => result = Ok(ComplexDeleteStatement)

\* the parse ran to the last token and returned a statement whose table has
\* the alias e
C13_Witness ==
    /\ phase = "done"
    /\ current = Len(tokens)
    /\ result.ok
    /\ result.val.table.alias = Some(<<"e">>)
    /\ Len(result.val.order_by.v) = 2

----------------------------------------------------------------------------
(* The cursor methods called one after the other by a caller of the parser. *)
(* ret is what the last call returned, with the call it was; result is the  *)
(* same for the call before it.                                             *)

W_select == <<"s", "e", "l", "e", "c", "t">>

CursorTexts ==
    {<<>>,
     Join(<<W_select, <<"(">>, W_a, <<"=">>, <<"1">>, <<")">>>>),
     Join(<<K["SELECT"], W_a, <<",">>, W_t, K["FROM"], W_t>>),
     Join(<<<<"<", "=">>, <<"=">>, <<",">>, <<",">>, W_select, W_select>>)}

MatchCalls ==
    {<<"match_keyword", kw>> : kw \in {K["SELECT"], W_select, K["FROM"]}}
    \cup {<<"match_punctuator", p>> : p \in {"(", ","}}
    \cup {<<"match_operator", op>> : op \in {<<"=">>, <<"<", "=">>}}

\* the caller calls match_keyword, match_punctuator or match_operator
CallMatch ==
    /\ phase = "ready"
    /\ \E call \in MatchCalls :
          \E r \in {CASE call[1] = "match_keyword" -> match_keyword(current, call[2])
                      [] call[1] = "match_punctuator" -> match_punctuator(current, call[2])
                      [] call[1] = "match_operator" -> match_operator(current, call[2])} :
             /\ current' = r.cur
             /\ ret' = [ok |-> TRUE, call |-> call, val |-> r.hit]
    /\ result' = ret
    /\ UNCHANGED <<sql, entry, tokens, call_stack, phase>>

\* the caller calls consume_token
CallConsumeToken ==
    /\ phase = "ready"
    /\ \E r \in {consume_token(current)} :
          /\ current' = r.cur
          /\ ret' = [ok |-> TRUE, call |-> <<"consume_token">>, val |-> r.tok]
    /\ result' = ret
    /\ UNCHANGED <<sql, entry, tokens, call_stack, phase>>

\* the caller calls back
CallBack ==
    /\ phase = "ready"
    /\ current' = back(current)
    /\ ret' = [ok |-> TRUE, call |-> <<"back">>, val |-> None]
    /\ result' = ret
    /\ UNCHANGED <<sql, entry, tokens, call_stack, phase>>

\* the arguments of skip and peek_n: 0, 1, 2, 7, 2^64 - 1 and 2^64 - 2
UsizeArgs == {0, 1, 2, 7, -1, -2}

\* the caller calls skip(n).  When current + n overflows, a build with
\* overflow checks aborts and a build without them goes on with the wrapped
\* sum.
CallSkip ==
    /\ phase = "ready"
    /\ \E n \in UsizeArgs :
          \E aborts \in (IF AddOverflows(current, n) THEN BOOLEAN ELSE {FALSE}) :
             IF aborts
             THEN phase' = "abort" /\ UNCHANGED <<current, ret, result>>
             ELSE /\ current' = skip(current, n)
                  /\ ret' = [ok |-> TRUE, call |-> <<"skip", n>>, val |-> None]
                  /\ result' = ret
                  /\ UNCHANGED phase
    /\ UNCHANGED <<sql, entry, tokens, call_stack>>

\* the caller calls peek() or peek_n(n), with the same two outcomes when
\* current + n overflows
CallPeek ==
    /\ phase = "ready"
    /\ \/ /\ ret' = [ok |-> TRUE, call |-> <<"peek">>, val |-> peek(current)]
          /\ result' = ret
          /\ UNCHANGED phase
       \/ \E n \in UsizeArgs :
             \E aborts \in (IF AddOverflows(current, n) THEN BOOLEAN ELSE {FALSE}) :
                IF aborts
                THEN phase' = "abort" /\ UNCHANGED <<ret, result>>
                ELSE /\ ret' = [ok |-> TRUE, call |-> <<"peek_n", n>>,
                                val |-> peek_n(current, n)]
                     /\ result' = ret
                     /\ UNCHANGED phase
    /\ UNCHANGED <<sql, entry, tokens, current, call_stack>>

CursorNext == NewFromSql \/ CallMatch \/ CallConsumeToken \/ CallBack
SpecCursor == InitWith(CursorTexts, {"cursor"}) /\ [][CursorNext]_vars

\* the last call was the method named
LastCall(r, name) == "call" \in DOMAIN r /\ r.call[1] = name

\* the token is the one the match call asks for
TokenMatches(call, tok) ==
    CASE call[1] = "match_keyword" ->
             tok.type = "Keyword" /\ ToUppercase(tok.text) = ToUppercase(call[2])
      [] call[1] = "match_punctuator" -> tok.type = "Punctuator" /\ tok.ch = call[2]
      [] call[1] = "match_operator" -> tok.type = "Operator" /\ tok.text = call[2]

\* C14: a match helper returns true and moves the cursor forward by exactly
\* one when the current token is the keyword (letter case ignored),
\* punctuator or operator asked for; otherwise, also at the end of the
\* tokens, it returns false and the cursor stays where it was.
C14_MatchHelpers ==
    [][(phase = "ready" /\ \E call \in MatchCalls : LastCall(ret', call[1]))
        => IF current < Len(tokens) /\ TokenMatches(ret'.call, tokens[current + 1])
           THEN ret'.val = TRUE /\ current' = current + 1
           ELSE ret'.val = FALSE /\ current' = current]_vars

\* match_keyword("SELECT") has matched the token select and stepped over it
C14_Witness ==
    /\ phase = "ready"
    /\ LastCall(ret, "match_keyword")
    /\ ret.call[2] = K["SELECT"]
    /\ ret.val = TRUE
    /\ current = 1
    /\ tokens[1] = Keyword(W_select)

\* C15: back() right after a consume_token that returned a token t leaves the
\* cursor where peek returns t; consume_token at the end of the tokens
\* returns None with the cursor unchanged, and back() at position 0 leaves
\* the position 0.
C15_ConsumeThenBack ==
    [][phase = "ready" =>
        /\ (LastCall(ret', "back") /\ LastCall(ret, "consume_token") /\ ret.val.some)
              => peek(current') = ret.val
        /\ (LastCall(ret', "consume_token") /\ current = Len(tokens))
              => ret'.val = None /\ current' = current
        /\ (LastCall(ret', "back") /\ current = 0) => current' = 0]_vars

\* back() has just undone a consume_token that returned the second token
C15_Witness ==
    /\ phase = "ready"
    /\ LastCall(ret, "back")
    /\ LastCall(result, "consume_token")
    /\ current = 1
    /\ result.val = Some(tokens[2])

----------------------------------------------------------------------------
(* INSERT statements: a column list and DEFAULT VALUES                      *)

\* the column lists: none, empty (written () and ( )), one and two columns
ColumnLists ==
    {<<>>, <<<<"(", ")">>>>, <<<<"(">>, <<")">>>>, <<<<"(", "a", ")">>>>,
     <<<<"(", "a", ",">>, <<"b", ")">>>>}

\* what follows the column list first: DEFAULT VALUES or nothing
DefaultForms == {<<>>, DefaultValuesWords, <<<<"d", "e", "f", "a", "u", "l", "t">>, K["VALUES"]>>}

\* the rest of the statement
InsertTails ==
    {<<>>, ValuesWords, SetWords, SelectWords,
     <<K["ON"], K["DUPLICATE"], K["KEY"], K["UPDATE"], W_a, <<"=">>, <<"1">>>>}

InsertColumnCases ==
    {[text |-> Join(<<K["INSERT"], K["INTO"], W_t>> \o cols \o def \o tail),
      columns |-> cols # <<>>, default_values |-> def # <<>>] :
        cols \in ColumnLists, def \in DefaultForms, tail \in InsertTails}

SpecInsertColumns ==
    /\ InitWith({c.text : c \in InsertColumnCases}, {"parse_insert_statement"})
    /\ [][InsertNext]_vars

\* C16: parse_insert_statement returns a parse error for every INSERT that
\* has a parenthesised column list, empty or not, and then DEFAULT VALUES,
\* whatever follows.
C16_ColumnsWithDefaultValues ==
    \A c \in InsertColumnCases :
        phase = "done" /\ sql = c.text /\ c.columns /\ c.default_values =>
            /\ ~result.ok
            /\ ~result.panic
            /\ result.message.text = "Cannot specify columns with DEFAULT VALUES"

\* INSERT INTO t () DEFAULT VALUES was refused
C16_Witness ==
    /\ phase = "done"
    /\ sql = Join(<<K["INSERT"], K["INTO"], W_t, <<"(", ")">>>> \o DefaultValuesWords)
    /\ tokens[4] = Punctuator("(")
    /\ ~result.ok
    /\ ~result.panic
    /\ result.token_position = Len(tokens)

----------------------------------------------------------------------------
(* SELECT statements: the wildcard column                                   *)

\* the column lists *, "*, a", "a, *", a and "a, a"
StarColumnLists ==
    {<<<<"*">>>>, <<<<"*", ",">>, W_a>>, <<<<"a", ",">>, <<"*">>>>, <<W_a>>,
     <<<<"a", ",">>, W_a>>}

StarTexts ==
    {Join(<<sel>> \o cols \o <<K["FROM"], tab>> \o tail) :
        sel \in {K["SELECT"], W_select}, cols \in StarColumnLists,
        tab \in {W_t, W_users},
        tail \in {<<>>, <<K["WHERE"], W_a, <<"=">>, <<"1">>>>, <<K["LIMIT"], <<"1">>>>}}

SpecWildcard == InitWith(StarTexts, {"parse_select_statement"}) /\ [][SelectNext]_vars

\* C17: SELECT * FROM t parses to a statement whose column list is exactly
\* [Wildcard].
C17_WildcardColumn ==
    phase = "done" /\ sql = Join(<<K["SELECT"], <<"*">>, K["FROM"], W_t>>) =>
        /\ result.ok
        /\ result.val.columns = <<Wildcard>>

----------------------------------------------------------------------------
(* Comparison operators                                                     *)

ComparisonSpellings ==
    {[text |-> <<"=">>, op |-> "Eq"], [text |-> <<"!", "=">>, op |-> "NotEq"],
     [text |-> <<"<", ">">>, op |-> "NotEq"], [text |-> <<"<">>, op |-> "Lt"],
     [text |-> <<"<", "=">>, op |-> "LtEq"], [text |-> <<">">>, op |-> "Gt"],
     [text |-> <<">", "=">>, op |-> "GtEq"]}

ComparisonOperands ==
    {[text |-> W_a, expr |-> ExprIdentifier(W_a)],
     [text |-> W_t, expr |-> ExprIdentifier(W_t)],
     [text |-> <<"1">>, expr |-> Literal(ValueInteger(<<"1">>))]}

\* left, the operator and right, separated by spaces or written together
ComparisonCases ==
    {[text |-> IF spaced THEN Join(<<l.text, s.text, r.text>>)
               ELSE l.text \o s.text \o r.text,
      spaced |-> spaced, expr |-> BinaryOp(l.expr, s.op, r.expr)] :
        l \in ComparisonOperands, s \in ComparisonSpellings,
        r \in ComparisonOperands, spaced \in BOOLEAN}

SpecComparison ==
    /\ InitWith({c.text : c \in ComparisonCases}, {"parse_expr"})
    /\ [][ExprNext]_vars

\* C18: each of =, !=, <>, <, <=, >, >= written between two operands, with
\* spaces around it, parses to one BinaryOp of those operands with Eq, NotEq
\* (for != and for <>), Lt, LtEq, Gt or GtEq.
C18_ComparisonSpellings ==
    \A c \in ComparisonCases :
        phase = "done" /\ sql = c.text /\ c.spaced => result = Ok(c.expr)

----------------------------------------------------------------------------
(* INSERT ... SET with function calls as values                             *)

\* Expr::FunctionCall
FunctionCall(name, args) == [kind |-> "FunctionCall", name |-> name, args |-> args]

W_NOW == <<"N", "O", "W">>

\* the values written after = : an integer, a column and NOW()
SetValues ==
    {[word |-> <<"1">>, expr |-> Literal(ValueInteger(<<"1">>)), call |-> FALSE],
     [word |-> <<"b">>, expr |-> ExprIdentifier(<<"b">>), call |-> FALSE],
     [word |-> W_NOW \o <<"(", ")">>, expr |-> FunctionCall(W_NOW, <<>>), call |-> TRUE]}

MaxSetValues == 3

SetColumns == <<<<"a">>, <<"b">>, <<"c">>, <<"d">>>>

\* the lists of one to MaxSetValues values
SetValueLists == UNION {[1..n -> SetValues] : n \in 1..MaxSetValues}

\* column = value, with a comma on every value but the last
SetAssignmentWords(values, i) ==
    <<SetColumns[i], <<"=">>,
      values[i].word \o (IF i < Len(values) THEN <<",">> ELSE <<>>)>>

RECURSIVE SetListWords(_, _)
SetListWords(values, i) ==
    IF i > Len(values) THEN <<>>
    ELSE SetAssignmentWords(values, i) \o SetListWords(values, i + 1)

SetCases ==
    {[text |-> Join(<<K["INSERT"], K["INTO"], W_t, K["SET"]>> \o SetListWords(values, 1)),
      set_clause |-> [i \in 1..Len(values) |-> <<SetColumns[i], values[i].expr>>],
      calls |-> \E i \in 1..Len(values) : values[i].call] :
        values \in SetValueLists}

SpecInsertSet ==
    /\ InitWith({c.text : c \in SetCases}, {"parse_insert_statement"})
    /\ [][InsertNext]_vars

\* C19: an INSERT ... SET whose values include NOW() parses to a statement
\* whose SET list has every assignment in the order written, the value of
\* each NOW() being FunctionCall{name: NOW, args: []}.
C19_FunctionCallInSet ==
    \A c \in SetCases :
        phase = "done" /\ sql = c.text /\ c.calls =>
            /\ result.ok
            /\ result.val.set_clause = Some(c.set_clause)

----------------------------------------------------------------------------
(* Parse errors: the position and the context window                        *)

MaxErrorWords == 3

ErrorWords ==
    {K["SELECT"], K["DELETE"], K["FROM"], K["WHERE"], W_a, <<"1">>, <<"(">>, <<"+">>}

\* the texts of at most MaxErrorWords words, and longer texts that fail after
\* the fourth token
ErrorTexts ==
    {Join(ws) : ws \in UNION {[1..n -> ErrorWords] : n \in 0..MaxErrorWords}}
    \cup {Join(head \o tail) :
             head \in {<<K["DELETE"], K["FROM"], W_t, K["WHERE"]>>,
                       <<W_a, <<"+">>, W_a, <<"+">>>>},
             tail \in {<<<<"(">>>>, <<<<")">>, W_a, W_x>>, <<W_a, <<"=">>>>}}

ErrorEntries == {"parse_select_statement", "parse_delete_statement", "parse_expr"}

ErrorNext == NewFromSql \/ Begin \/ Step

SpecErrors == InitWith(ErrorTexts, ErrorEntries) /\ [][ErrorNext]_vars

\* the entry function has returned a ParseError
ReturnedError == phase = "done" /\ ~result.ok /\ ~result.panic

\* the places of the context window that carry the marker
Marked(near) == {i \in 1..Len(near) : near[i].marker}

\* the first token index of the window around position
WindowStart(position) == IF position > 3 THEN position - 3 ELSE 0

\* C20: every ParseError returned has token_position equal to the cursor, its
\* context window holds at most 3 tokens before that position and 1 after,
\* and exactly one token of the window is marked, the token at index
\* token_position; also when the cursor is at the end of the tokens.
C20_ErrorPositionAndMarker ==
    ReturnedError =>
        LET position == result.token_position
            near == result.message.near
        IN /\ position = current
           /\ Len(near) <= 5
           /\ Cardinality(Marked(near)) = 1
           /\ \A i \in Marked(near) :
                 /\ i = position - WindowStart(position) + 1
                 /\ position < Len(tokens)
                 /\ near[i].shown = format_token(tokens[position + 1])

----------------------------------------------------------------------------
(* String literals glued to punctuation                                     *)

MaxGluedLen == 3

GluedChars == {"a", "b", " ", ","}

\* the text ('s')
Parenthesised(s) == <<"(">> \o Quoted(s) \o <<")">>

GluedTexts ==
    {Parenthesised(s) : s \in Concats({<<c>> : c \in GluedChars}, MaxGluedLen)}

SpecGluedLiteral == InitWith(GluedTexts, {"tokenize"}) /\ [][TokenizeNext]_vars

\* the literal written between the quotes of ('s')
GluedLiteral == Slice(sql, 3, Len(sql) - 2)

\* C21: for s with a space or a comma in it, the text ('s') tokenizes to
\* Punctuator '(', StringLiteral(s), Punctuator ')': the marks that stand for
\* the literal's spaces and commas are turned back into spaces and commas.
C21_GluedLiteralKeepsItsText ==
    (phase = "ready" /\ \E i \in 1..Len(GluedLiteral) : GluedLiteral[i] \in {" ", ","})
        => tokens = <<Punctuator("("), StringLiteral(GluedLiteral), Punctuator(")")>>

----------------------------------------------------------------------------
(* Unterminated quotes and backticks                                        *)

MaxOpenLen == 3

OpenChars == {"a", "b", "1"}

\* what the word holds before the opening quote or backtick
OpenHeads == {<<>>, <<"a">>, <<"(">>, <<"a", "=">>}

\* a head, an opening single quote or backtick that is never closed, and the
\* characters written after it up to the end of the text
OpenCases ==
    {[text |-> head \o <<opener>> \o content, opener |-> opener, content |-> content] :
        head \in OpenHeads, opener \in {"'", BACKTICK},
        content \in Concats({<<c>> : c \in OpenChars}, MaxOpenLen) \ {<<>>}}

SpecUnterminated ==
    InitWith({c.text : c \in OpenCases}, {"tokenize"}) /\ [][TokenizeNext]_vars

\* C22: when the text ends inside a single quote or a backtick that was
\* never closed, the characters captured after the opener are the last token,
\* an Identifier: none of them is dropped.
C22_UnterminatedIsFlushed ==
    \A c \in OpenCases :
        phase = "ready" /\ sql = c.text =>
            /\ tokens # <<>>
            /\ tokens[Len(tokens)] = Identifier(c.content)

----------------------------------------------------------------------------
(* DELETE statements: clauses out of order or repeated                      *)

\* the ordinal of a clause of DELETE
ClauseOrdinal(words) ==
    CASE words = DeleteWhereWords -> DEL_WHERE_IDX
      [] words = DeleteOrderByWords -> DEL_ORDER_BY_IDX
      [] words = DeleteLimitWords -> DEL_LIMIT_IDX

\* a clause of cs comes after a clause of higher ordinal, or a second time
OutOfOrder(cs) ==
    \E i, j \in 1..Len(cs) : i < j /\ ClauseOrdinal(cs[j]) <= ClauseOrdinal(cs[i])

\* C23: parse_delete_statement returns the parse error "clause out of order"
\* for every DELETE in which WHERE, ORDER BY or LIMIT is written after a
\* clause of higher ordinal or a second time, and never a statement.
C23_OutOfOrderRefused ==
    \A cs \in SeqsUpTo(DeleteClauseWords, MaxDeleteClauses) :
        (phase = "done" /\ sql = DeleteText(cs) /\ OutOfOrder(cs)) =>
            /\ ~result.ok
            /\ ~result.panic
            /\ result.message.text = "clause out of order, expected after"

----------------------------------------------------------------------------
(* LIMIT and OFFSET                                                         *)

\* 2^64, one above the largest u64
U64_OVER == <<"1","8","4","4","6","7","4","4","0","7","3","7","0","9","5","5","1","6","1","6">>

\* what is written where a count is expected, the non-negative integer it
\* denotes (None when it denotes none), and whether that integer is at most
\* 2^64 - 1.  The empty word stands for the end of the input.
CountWords ==
    {[word |-> <<"1", "0">>, denotes |-> Some(<<"1", "0">>), fits |-> TRUE],
     [word |-> <<"0">>, denotes |-> Some(<<"0">>), fits |-> TRUE],
     [word |-> <<"0", "0", "7">>, denotes |-> Some(<<"7">>), fits |-> TRUE],
     [word |-> U64_MAX, denotes |-> Some(U64_MAX), fits |-> TRUE],
     [word |-> U64_OVER, denotes |-> Some(U64_OVER), fits |-> FALSE],
     [word |-> <<"1", ".", "5">>, denotes |-> None, fits |-> FALSE],
     [word |-> <<"-", "1">>, denotes |-> None, fits |-> FALSE],
     [word |-> W_a, denotes |-> None, fits |-> FALSE],
     [word |-> <<"'", "1", "'">>, denotes |-> None, fits |-> FALSE],
     [word |-> <<>>, denotes |-> None, fits |-> FALSE]}

OffsetSpellings == {K["OFFSET"], <<"o", "f", "f", "s", "e", "t">>}

\* a count alone, and a count, OFFSET and a second count
LimitCases ==
    {[text |-> l.word, limit |-> l, has_offset |-> FALSE, offset |-> l] : l \in CountWords}
    \cup {[text |-> Join(<<l.word, kw>> \o (IF o.word = <<>> THEN <<>> ELSE <<o.word>>)),
           limit |-> l, has_offset |-> TRUE, offset |-> o] :
             l \in CountWords \ {c \in CountWords : c.word = <<>>},
             kw \in OffsetSpellings, o \in CountWords}

LimitNext == NewFromSql \/ Begin \/ Step

SpecLimit == InitWith({c.text : c \in LimitCases}, {"parse_limit"}) /\ [][LimitNext]_vars

\* the clause a case denotes
DenotedLimit(c) ==
    LimitClause(c.limit.denotes.v, IF c.has_offset THEN Some(c.offset.denotes.v) ELSE None)

\* parse_limit has returned a parse error
LimitRefused == ~result.ok /\ ~result.panic

\* C24: parse_limit succeeds exactly when the current token is a numeric
\* literal denoting a non-negative integer of at most 2^64 - 1 and, if OFFSET
\* follows, the token after OFFSET is one too; it then returns the limit and
\* the offset denoted, offset None without OFFSET.  A float, a non-numeric
\* token, the end of the input or an integer above 2^64 - 1 in either place
\* is a parse error.
C24_LimitWithinU64 ==
    \A c \in LimitCases :
        phase = "done" /\ sql = c.text =>
            IF c.limit.fits /\ (c.has_offset => c.offset.fits)
            THEN result = Ok(DenotedLimit(c))
            ELSE LimitRefused

\* LIMIT 007 OFFSET 18446744073709551615 has been parsed
C24_Witness ==
    /\ phase = "done"
    /\ sql = Join(<<<<"0", "0", "7">>, K["OFFSET"], U64_MAX>>)
    /\ current = 3
    /\ result = Ok(LimitClause(<<"7">>, Some(U64_MAX)))

\* C24 as stated: every numeric literal denoting a non-negative integer is
\* accepted, whatever its size.
C24_LimitAnyInteger ==
    \A c \in LimitCases :
        phase = "done" /\ sql = c.text =>
            IF c.limit.denotes.some /\ (c.has_offset => c.offset.denotes.some)
            THEN result = Ok(DenotedLimit(c))
            ELSE LimitRefused

----------------------------------------------------------------------------
(* Logical operators: chains and the number of operands                     *)

MaxChain == 4
MaxLogicalWords == 5

ChainOperands == <<<<"a">>, <<"b">>, <<"c">>, <<"d">>, <<"e">>>>

\* operand 1 kw operand 2 kw ... operand k, as words
RECURSIVE ChainWords(_, _)
ChainWords(kw, k) ==
    IF k = 1 THEN <<ChainOperands[1]>>
    ELSE ChainWords(kw, k - 1) \o <<kw, ChainOperands[k]>>

\* the tree of the chain of k operands grouped from the left
RECURSIVE LeftChain(_, _)
LeftChain(op, k) ==
    IF k = 1 THEN ExprIdentifier(ChainOperands[1])
    ELSE LogicalOp(op, <<LeftChain(op, k - 1), ExprIdentifier(ChainOperands[k])>>)

LogicalKeywords == {[word |-> K["OR"], op |-> "Or"], [word |-> K["AND"], op |-> "And"]}

LogicalWords == {W_a, W_x, K["AND"], K["OR"], K["NOT"]}

\* the chains, the texts of at most MaxLogicalWords words, and chains with
\* parentheses and comparisons
LogicalTexts ==
    {Join(ChainWords(kw.word, k)) : kw \in LogicalKeywords, k \in 2..MaxChain}
    \cup {Join(ws) : ws \in UNION {[1..n -> LogicalWords] : n \in 1..MaxLogicalWords}}
    \cup {Join(<<W_a, K["OR"], <<"(">>, W_x, K["OR"], W_a, <<")">>>>),
          Join(<<<<"(">>, K["NOT"], W_a, <<")">>, K["AND"], K["NOT"], W_x, <<"=">>, <<"1">>>>),
          Join(<<<<"-">>, <<"(">>, W_a, K["AND"], W_x, <<")">>, <<"+">>, <<"1">>>>)}

SpecLogical == InitWith(LogicalTexts, {"parse_expr"}) /\ [][ExprNext]_vars

\* every LogicalOp node of the tree e has at least 2 operands when its
\* operator is And or Or and exactly 1 when it is Not
RECURSIVE OperandCountsOK(_)
OperandCountsOK(e) ==
    CASE e.kind = "LogicalOp" ->
            /\ e.op \in {"And", "Or"} => Len(e.expressions) >= 2
            /\ e.op = "Not" => Len(e.expressions) = 1
            /\ \A i \in 1..Len(e.expressions) : OperandCountsOK(e.expressions[i])
      [] e.kind = "BinaryOp" -> OperandCountsOK(e.left) /\ OperandCountsOK(e.right)
      [] e.kind = "UnaryOp" -> OperandCountsOK(e.expr)
      [] OTHER -> TRUE

\* C25: a chain of k >= 2 operands joined by OR, or by AND, parses to the
\* tree grouped from the left, and in every tree parse_expr returns each
\* LogicalOp node has at least 2 operands for And and Or and exactly 1 for
\* Not.
C25_LogicalChains ==
    phase = "done" =>
        /\ \A kw \in LogicalKeywords, k \in 2..MaxChain :
              sql = Join(ChainWords(kw.word, k)) => result = Ok(LeftChain(kw.op, k))
        /\ result.ok => OperandCountsOK(result.val)

\* a OR b OR c has been parsed to (a OR b) OR c
C25_Witness ==
    /\ phase = "done"
    /\ sql = Join(ChainWords(K["OR"], 3))
    /\ result = Ok(LogicalOp("Or", <<LogicalOp("Or", <<ExprIdentifier(<<"a">>),
                                                       ExprIdentifier(<<"b">>)>>),
                                     ExprIdentifier(<<"c">>)>>))

----------------------------------------------------------------------------
(* The depth of the call stack of the expression parser                     *)

MaxSigns == 905

\* n prefix signs, + and - in turn, and the operand x
Signed(n) == [i \in 1..(n + 1) |-> IF i = n + 1 THEN "x" ELSE IF i % 2 = 1 THEN "+" ELSE "-"]

SignCounts == 0..3 \cup {MaxSigns}

\* parse_expr, parse_logical_or, parse_logical_and, parse_not,
\* parse_comparison, parse_additive, parse_multiplicative, parse_unary and
\* parse_primary
ExprProductions ==
    {"parse_expr", "parse_logical_or", "parse_logical_and", "parse_not",
     "parse_comparison", "parse_additive", "parse_multiplicative", "parse_unary",
     "parse_primary"}

\* every production once at each of the depths 0..MAX_EXPR_DEPTH, and the
\* parse_expr that refuses the depth above
ExprStackBound == Cardinality(ExprProductions) * (MAX_EXPR_DEPTH + 1) + 1

SpecSigns ==
    /\ InitWith({Signed(n) : n \in SignCounts} \cup {Nested(MAX_EXPR_DEPTH + 1)},
                {"parse_expr"})
    /\ [][ExprNext]_vars

\* C26: while parse_expr runs, the number of nested active calls of the
\* expression parser is at most the constant the depth cap gives, whatever
\* the length of the input, chains of prefix + and - included.
C26_CallDepthBounded == Len(call_stack) <= ExprStackBound

----------------------------------------------------------------------------
(* Integer literals in expressions                                          *)

\* 2^63 - 2 and 2^63, the neighbours of the largest i64
I64_BELOW == <<"9","2","2","3","3","7","2","0","3","6","8","5","4","7","7","5","8","0","6">>
I64_OVER == <<"9","2","2","3","3","7","2","0","3","6","8","5","4","7","7","5","8","0","8">>

\* all-digit literals, the value each denotes as a numeral without leading
\* zeros, and whether the value is at most 2^63 - 1
IntegerWords ==
    {[word |-> <<"0">>, value |-> <<"0">>, fits |-> TRUE],
     [word |-> <<"7">>, value |-> <<"7">>, fits |-> TRUE],
     [word |-> <<"0", "0", "7">>, value |-> <<"7">>, fits |-> TRUE],
     [word |-> <<"4", "2", "9", "4", "9", "6", "7", "2", "9", "6">>,
      value |-> <<"4", "2", "9", "4", "9", "6", "7", "2", "9", "6">>, fits |-> TRUE],
     [word |-> I64_BELOW, value |-> I64_BELOW, fits |-> TRUE],
     [word |-> I64_MAX, value |-> I64_MAX, fits |-> TRUE],
     [word |-> <<"0", "0">> \o I64_MAX, value |-> I64_MAX, fits |-> TRUE],
     [word |-> I64_OVER, value |-> I64_OVER, fits |-> FALSE],
     [word |-> <<"0">> \o I64_OVER, value |-> I64_OVER, fits |-> FALSE],
     [word |-> U64_MAX, value |-> U64_MAX, fits |-> FALSE],
     [word |-> U64_OVER, value |-> U64_OVER, fits |-> FALSE],
     [word |-> <<"1">> \o I64_MAX, value |-> <<"1">> \o I64_MAX, fits |-> FALSE]}

SpecIntegers ==
    InitWith({c.word : c \in IntegerWords}, {"parse_expr"}) /\ [][ExprNext]_vars

\* C27: for an all-digit literal in expression position the parser returns
\* Literal(Integer(v)), v the value the literal denotes, when v <= 2^63 - 1,
\* and the parse error "Invalid integer" when v is larger; the value returned
\* is never another one.
C27_IntegerExactOrRefused ==
    \A c \in IntegerWords :
        phase = "done" /\ sql = c.word =>
            IF c.fits
            THEN result = Ok(Literal(ValueInteger(c.value)))
            ELSE /\ ~result.ok
                 /\ ~result.panic
                 /\ result.message.text = "Invalid integer:"
                 /\ result.message.found = c.word

\* 9223372036854775808 has been refused
C27_Witness ==
    /\ phase = "done"
    /\ sql = I64_OVER
    /\ ~result.ok
    /\ ~result.panic
    /\ result.message.text = "Invalid integer:"
    /\ result.token_position = 1

----------------------------------------------------------------------------
(* The cursor stays within the tokens                                       *)

AllCursorNext ==
    NewFromSql \/ CallMatch \/ CallConsumeToken \/ CallBack \/ CallSkip \/ CallPeek

SpecCursorAll == InitWith(CursorTexts, {"cursor"}) /\ [][AllCursorNext]_vars

\* C28: every call of consume_token, skip, back, match_keyword,
\* match_punctuator, match_operator, peek and peek_n on a parser leaves the
\* tokens as they were and the cursor between 0 and the number of tokens, so
\* that the context window of an error made there is a slice
\* tokens[start..end] with start <= end <= the number of tokens.
C28_CursorWithinTokens ==
    [][phase = "ready" =>
        /\ tokens' = tokens
        /\ 0 <= current'
        /\ current' <= Len(tokens')
        /\ get_error_context(current').ok]_vars

\* skip(2^64 - 1) at the first token has put the cursor at the end of the
\* six tokens, and peek_n(2) there has returned None
C28_Witness ==
    /\ phase = "ready"
    /\ Len(tokens) = 6
    /\ current = Len(tokens)
    /\ LastCall(result, "skip")
    /\ result.call[2] = -1
    /\ LastCall(ret, "peek_n")
    /\ ret.call[2] = 2
    /\ ret.val = None

----------------------------------------------------------------------------
(* The clause-order check in DELETE and INSERT                              *)

OnDuplicateWords == <<K["ON"], K["DUPLICATE"], K["KEY"], K["UPDATE"], W_a, <<"=">>, <<"1">>>>

\* INSERT INTO t with one data source and ON DUPLICATE KEY UPDATE written
\* not at all, once or twice
OnDuplicateTexts ==
    {Join(<<K["INSERT"], K["INTO"], W_t>> \o source \o tail) :
        source \in {ValuesWords, SetWords, DefaultValuesWords},
        tail \in {<<>>, OnDuplicateWords, OnDuplicateWords \o OnDuplicateWords}}

SpecClauseOrder ==
    /\ InitWith(DeleteTexts \cup OnDuplicateTexts,
                {"parse_delete_statement", "parse_insert_statement"})
    /\ [][NewFromSql \/ Begin \/ Step]_vars

\* r is the error of move_current_idx
OutOfOrderError(r) ==
    ~r.ok /\ ~r.panic /\ "message" \in DOMAIN r
          /\ r.message.text = "clause out of order, expected after"

\* C29: parse_delete_statement and parse_insert_statement call
\* move_current_idx only with a clause ordinal above the tracked one: the
\* "clause out of order" error is returned by no call and is the result of no
\* parse, whatever the order of the clauses written.
C29_OrderErrorNeverTaken == ~OutOfOrderError(ret) /\ ~OutOfOrderError(result)

\* an INSERT with ON DUPLICATE KEY UPDATE has passed the check
C29_Witness ==
    /\ phase = "done"
    /\ entry = "parse_insert_statement"
    /\ sql = Join(<<K["INSERT"], K["INTO"], W_t>> \o ValuesWords \o OnDuplicateWords)
    /\ result.ok
    /\ result.val.on_duplicate.some
    /\ current = Len(tokens)

----------------------------------------------------------------------------
(* Termination                                                              *)

MaxRunWords == 2

RunWords == {W_a, <<"1">>, K["OR"], K["AND"], <<"+">>, <<"*">>, <<"(">>, <<")">>}

\* the texts of at most MaxRunWords words, and texts that take each list or
\* operator loop more than once
RunTexts ==
    {Join(ws) : ws \in UNION {[1..n -> RunWords] : n \in 0..MaxRunWords}}
    \cup DeleteTexts
    \cup {c.text : c \in SetCases}
    \cup {Join(<<W_a, K["OR"], W_a, K["OR"], W_a, K["AND"], W_a, K["AND"], W_a>>),
          Join(<<W_a, <<"+">>, W_a, <<"-">>, W_a, <<"*">>, W_a, <<"/">>, W_a>>),
          Join(<<K["DELETE"], K["FROM"], W_t, K["ORDER"], K["BY"], <<"a", ",">>,
                 W_a, <<"D", "E", "S", "C", ",">>, W_a>>),
          Join(<<K["INSERT"], K["INTO"], W_t, <<"(", "a", ",">>, <<"a", ",">>, <<"a", ")">>,
                 K["VALUES"], <<"(", "1", ",">>, <<"1", ")", ",">>, <<"(", ")", ",">>,
                 <<"(", "1", ")">>>> \o OnDuplicateWords \o <<<<",">>, W_a, <<"=">>, W_a>>),
          Join(<<K["INSERT"], K["INTO"], W_t, <<"(", "a", ",">>, <<",">>>>)}

RunEntries == {"parse_expr", "parse_delete_statement", "parse_insert_statement"}

RunNext == NewFromSql \/ Begin \/ Step

\* where the calling thread is: every step of a parse changes it, a step
\* being a call or a return
CallPosition == <<phase, Len(call_stack)>>

\* once the caller has the parser, the parse runs on the calling thread to
\* its return: a step of the parse that can be taken is taken
SpecTermination ==
    /\ InitWith(RunTexts, RunEntries)
    /\ [][RunNext]_vars
    /\ WF_CallPosition(Begin \/ Step)

\* the functions with a list or operator loop
LoopFunctions ==
    {"parse_logical_or", "parse_logical_and", "parse_additive", "parse_multiplicative",
     "parse_order_by", "parse_values_clause", "parse_set_clause",
     "parse_on_duplicate_key_update"}

\* the function of the top frame, back from a call, goes round its loop: it
\* calls for the next operand or item
LoopIteration ==
    /\ phase = "run"
    /\ call_stack # <<>>
    /\ call_stack[Len(call_stack)].fn \in LoopFunctions
    /\ call_stack[Len(call_stack)].pc >= 1
    /\ Len(call_stack') = Len(call_stack) + 1

\* C30: every parse by parse_expr, parse_delete_statement and
\* parse_insert_statement of the tokens of a parser comes to its return;
\* while it runs the cursor never
\* moves back, and every iteration of a list or operator loop moves it
\* forward by at least one token.
C30_ParsesTerminate ==
    /\ (phase = "ready") ~> (phase = "done")
    /\ [][phase = "run" => current' >= current]_vars
    /\ [][LoopIteration => current' > current]_vars

\* the INSERT with three columns, three rows and two updates has been parsed
\* to its last token
C30_Witness ==
    /\ phase = "done"
    /\ entry = "parse_insert_statement"
    /\ result.ok
    /\ result.val.columns.some
    /\ result.val.values.some
    /\ result.val.on_duplicate.some
    /\ Len(result.val.columns.v) = 3
    /\ Len(result.val.values.v) = 3
    /\ Len(result.val.on_duplicate.v.updates) = 2
    /\ current = Len(tokens)

====
